---- MODULE Spec2Model ----
(***************************************************************************)
(* Model of the incremental WebDAV backup (src/backup-incremental.ts):     *)
(* the recursive scan, the classification against the manifest, the        *)
(* download protocol and the finalisation of a run, over several runs.     *)
(***************************************************************************)
EXTENDS Integers, Sequences, FiniteSets, TLC

\* ------------------------------------------------------------------ bounds
MaxSize == 2
MaxTime == 2
MaxRuns == 2
MaxChanges == 1
\* response blocks in a multi-status body given to parseMultistatus
MaxBlocks == 2
\* the largest value given to --max-pages
MaxPages == 2
\* files and folders of a remote tree below its root, and its depth
MaxNodes == 3
MaxDepth == 2

\* ------------------------------------------------------- the remote tree
\* root/            D/ (folder)   a (file)   E/ (folder, on some servers)
\* root/D/          D/b (file)
\* root/E/          (empty)
\* "z" is a path the manifest may still hold although the remote has no
\* such file any more.
Files == {"a", "D/b"}
Folders == {"", "D", "E"}
StalePath == "z"
\* the files whose size and time the server changes between runs
Mutable == {"a"}
Paths == Files \cup {StalePath}

\* path.dirname(destPath), relative to the backup root
Dirname(p) == IF p = "D/b" THEN "D" ELSE ""

VARIABLES
  remote,        \* Files -> [size, time]: what the server reports
  changes,       \* number of changes of the remote files so far
  manifestFile,  \* the manifest on disk: [exists, state, content]
  dirs,          \* directories of the mirror that exist on disk
  runs,          \* number of processes started so far (also the clock)
  clean,         \* the last run was incremental, not dry, finished without
                 \* errors, and the remote has not changed since
  follows,       \* value of clean when the current run started
  pc,            \* position of main()
  cfg,           \* CONFIG: password set or not, dryRun, fullSync
  manifest,      \* the manifest in memory
  loaded,        \* the manifest as loadManifest() returned it
  stats,         \* SyncStats
  filesToSync,   \* the to-sync list
  stack,         \* the active scanFolder calls
  current,       \* syncFiles: index of the file being synced
  http,          \* the request/response exchange in progress
  exitCode,      \* process exit status (-1 while running)
  class,         \* Files -> classification given by the scan of this run
  called,        \* files downloadFile was invoked for in this run
  succeeded,     \* files for which downloadFile returned true in this run
  failed,        \* files whose download did not succeed in this run
  written,       \* what this run created or modified on disk
  everDownloaded,\* files whose bytes were really fetched and written once
  parse,         \* one call of parseMultistatus: its arguments and result
  walk,          \* scanFolder over a remote tree with arbitrary names
  crawl,         \* the page crawl of the files crawler
  shell,         \* the curl backup script: its shells and their counters
  folders        \* the folders the remote tree has

\* the variables of a backup run
run == <<remote, changes, manifestFile, dirs, runs, clean, follows, pc, cfg, manifest,
         loaded, stats, filesToSync, stack, current, http, exitCode, class,
         called, succeeded, failed, written, everDownloaded, folders>>

vars == <<run, parse, walk, crawl, shell>>

\* the items of a remote folder, in the order of the server's listing
Children(folder) ==
  IF folder = "" THEN (IF "E" \in folders THEN <<"D", "a", "E">>
                                          ELSE <<"D", "a">>)
  ELSE IF folder = "D" THEN <<"D/b">>
  ELSE <<>>

\* ------------------------------------------------------------ data shapes
Entry(s, t, at) == [size |-> s, lastModifiedTime |-> t, syncedAt |-> at]

SumSizes(files) ==
  LET RECURSIVE Sum(_)
      Sum(S) == IF S = {} THEN 0
                ELSE LET p == CHOOSE q \in S : TRUE
                     IN files[p].size + Sum(S \ {p})
  IN Sum(DOMAIN files)

EmptyFiles == [p \in {} |-> Entry(0, 0, 0)]

EmptyManifest ==
  [lastFullSync |-> 0, lastIncrementalSync |-> 0,
   totalFiles |-> 0, totalSize |-> 0, files |-> EmptyFiles]

\* the entries an earlier run may have left for a path: every size and time
\* for "a", the values the server reports at first for the other paths
InitEntries(p) ==
  IF p = "a"
    THEN [size : 1..MaxSize, lastModifiedTime : 1..MaxTime, syncedAt : {0}]
    ELSE {Entry(1, 1, 0)}

\* manifests an earlier run may have left on disk
InitFiles ==
  { m \in UNION { [S -> [size : 1..MaxSize, lastModifiedTime : 1..MaxTime,
                         syncedAt : {0}]] : S \in SUBSET Paths } :
      \A p \in DOMAIN m : m[p] \in InitEntries(p) }

FileInfo(p) ==
  IF p \in Folders
    THEN [relativePath |-> p, isFolder |-> TRUE, size |-> 0,
          lastModifiedTime |-> 0]
    ELSE [relativePath |-> p, isFolder |-> FALSE, size |-> remote[p].size,
          lastModifiedTime |-> remote[p].time]

\* parseMultistatus applied to the 207 body the server sends for a folder
Listing(folder) ==
  [i \in 1..Len(Children(folder)) |-> FileInfo(Children(folder)[i])]

\* HTTP responses: the fields the handlers look at
Responses ==
  { [status |-> 200, challenge |-> FALSE, location |-> FALSE],
    [status |-> 207, challenge |-> FALSE, location |-> FALSE],
    [status |-> 302, challenge |-> FALSE, location |-> TRUE],
    [status |-> 302, challenge |-> FALSE, location |-> FALSE],
    [status |-> 401, challenge |-> TRUE,  location |-> FALSE],
    [status |-> 401, challenge |-> FALSE, location |-> FALSE],
    [status |-> 500, challenge |-> FALSE, location |-> FALSE] }

\* a request as it goes out: the URL it is for ("folder", "file", or the
\* "location" a redirect names) and whether it has an Authorization header
Req(url, auth) == [url |-> url, auth |-> auth]

NoHttp ==
  [op |-> "none", target |-> "", stage |-> "idle", sent |-> 0, authSent |-> 0,
   challenged |-> FALSE, first |-> 0, retry |-> 0, redir |-> 0,
   location |-> FALSE, reqs |-> <<>>, result |-> "none"]

InFlight_Never == FALSE

InFlight_OnlyWrites == http.stage = "writing"

\* a request or a file write is awaited
InFlight == http.stage \in {"sent", "authsent", "redirsent", "writing"}

W(kind, path) == [kind |-> kind, path |-> path]

\* what an error message says about its cause: nothing, the message of a
\* transport error, or 'HTTP <status>'
NoCause == [type |-> "none", status |-> 0]
TransportError == [type |-> "transport", status |-> 0]

HttpError_Generic(status) == [type |-> "transport", status |-> 0]

\* propfind: new Error(`HTTP ${authRes.statusCode}`)
HttpError(status) == [type |-> "http", status |-> status]

\* 'Failed to download: <path>'
Err(kind, path) == [kind |-> kind, path |-> path, cause |-> NoCause]

\* 'Failed to scan folder <path>: <e>'
ScanErr(path, e) == [kind |-> "scan", path |-> path, cause |-> e]

\* no call of parseMultistatus, no walk under study
NoParse ==
  [phase |-> "none", xml |-> <<>>, currentPath |-> <<>>, threw |-> FALSE,
   items |-> <<>>, dests |-> <<>>]
NoWalk ==
  [phase |-> "none", tree |-> {}, stack |-> <<>>, foldersScanned |-> 0,
   listed |-> <<>>, found |-> <<>>, failures |-> 0]
NoCrawl ==
  [phase |-> "none", verbose |-> TRUE, cookies |-> FALSE, maxPages |-> 0,
   visited |-> {}, toVisit |-> <<>>, pageCount |-> 0, fetched |-> <<>>]

\* DOWNLOADED=0 SKIPPED=0 ERRORS=0
ZeroCounters == [DOWNLOADED |-> 0, SKIPPED |-> 0, ERRORS |-> 0]

\* the curl backup script is not running
NoShell ==
  [phase |-> "none", dirs |-> <<>>, levels |-> <<>>, actual |-> ZeroCounters,
   unlisted |-> 0, logged |-> ZeroCounters]

ZeroStats ==
  [foldersScanned |-> 0, filesFound |-> 0, filesNew |-> 0,
   filesModified |-> 0, filesUnchanged |-> 0, filesDownloaded |-> 0,
   bytesDownloaded |-> 0, errors |-> <<>>]

Ended == {"idle", "usage", "done", "fatal", "hung", "crashed", "killed"}

\* --------------------------------------------------------- pure functions
\* the manifest file holding the complete JSON text of m
Intact(m) == [exists |-> TRUE, state |-> "ok", content |-> m]

\* no manifest file
Missing == [exists |-> FALSE, state |-> "ok", content |-> EmptyManifest]

\* a manifest file that readFileSync cannot read ("unreadable"), whose
\* text JSON.parse rejects ("invalid"), or whose text is valid JSON for a
\* value without a files mapping, such as null, {} or [] ("shape"); m is
\* what the text stood for, or can be read as
Damaged(how, m) == [exists |-> TRUE, state |-> how, content |-> m]

LoadManifest_TrustsFile ==
  IF manifestFile.exists THEN manifestFile.content ELSE EmptyManifest

\* loadManifest(): the parsed file, or the empty structure when there is
\* no file or when readFileSync or JSON.parse throws
LoadManifest ==
  IF manifestFile.exists /\ manifestFile.state = "ok"
    THEN manifestFile.content
    ELSE EmptyManifest

\* main(): Object.keys(manifest.files) on what loadManifest() returned,
\* which is whatever JSON.parse returned: a TypeError when that value is
\* null or has no files mapping
ManifestUnusable == manifestFile.exists /\ manifestFile.state = "shape"

\* saveManifest(): writes unless dry-run
SaveManifest(m) ==
  IF ~cfg.dryRun THEN Intact(m) ELSE manifestFile

NeedsSync_TimeDiffers(file, m) ==
  IF file.relativePath \notin DOMAIN m.files THEN "new"
  ELSE IF file.lastModifiedTime # m.files[file.relativePath].lastModifiedTime
          \/ file.size # m.files[file.relativePath].size THEN "modified"
  ELSE "unchanged"

NeedsSync(file, m) ==
  IF file.relativePath \notin DOMAIN m.files THEN "new"
  ELSE IF file.lastModifiedTime > m.files[file.relativePath].lastModifiedTime
          \/ file.size # m.files[file.relativePath].size THEN "modified"
  ELSE "unchanged"

SyncStatus_AlwaysNew(file, m) == "new"

SyncStatus_IgnoresFull(file, m) == NeedsSync(file, m)

\* scanFolder: CONFIG.fullSync ? 'new' : needsSync(item, manifest)
SyncStatus(file, m) == IF cfg.fullSync THEN "new" ELSE NeedsSync(file, m)

ManifestAfterSuccess_Replaces(m, file) ==
  [m EXCEPT !.files =
     [p \in {file.relativePath} |->
        Entry(file.size, file.lastModifiedTime, runs)]]

ManifestAfterSuccess_KeepsOld(m, file) ==
  [m EXCEPT !.files =
     [p \in DOMAIN m.files \cup {file.relativePath} |->
        IF p \in DOMAIN m.files
          THEN m.files[p]
          ELSE Entry(file.size, file.lastModifiedTime, runs)]]

\* syncFiles: manifest.files[file.relativePath] = {...}
ManifestAfterSuccess(m, file) ==
  [m EXCEPT !.files =
     [p \in DOMAIN m.files \cup {file.relativePath} |->
        IF p = file.relativePath
          THEN Entry(file.size, file.lastModifiedTime, runs)
          ELSE m.files[p]]]

DownloadShortCircuits_Never == FALSE

\* downloadFile: if (CONFIG.dryRun) return true
DownloadShortCircuits == cfg.dryRun

IsRedirect(r) == r.status >= 300 /\ r.status < 400 /\ r.location

\* handleResponse: redirectOptions, method GET with headers: {}
RedirectRequest == Req("location", FALSE)

RedirectSucceeds_AnyBelow400(r) == r.status < 400

\* handleResponse: redirectRes.statusCode === 200
RedirectSucceeds(r) == r.status = 200

AuthRetry_Always(r, isAuth) == r.status = 401

\* handleResponse: res.statusCode === 401 && !isAuth
AuthRetry(r, isAuth) == r.status = 401 /\ ~isAuth

CredentialMissing_Never(pw) == FALSE

\* main(): if (!CONFIG.password), with password = WA_PASSWORD || ''
CredentialMissing(pw) == ~pw

\* ------------------------------------------------------------------ Init
Init ==
  /\ remote = [f \in Files |-> [size |-> 1, time |-> 1]]
  /\ \E fs \in InitFiles :
       /\ manifestFile \in
            { Intact([lastFullSync |-> 0, lastIncrementalSync |-> 0,
                      totalFiles |-> Cardinality(DOMAIN fs),
                      totalSize |-> SumSizes(fs), files |-> fs]) }
            \cup (IF fs = EmptyFiles THEN {Missing} ELSE {})
       /\ everDownloaded = DOMAIN fs
       /\ dirs = (IF fs = EmptyFiles THEN {} ELSE {""})
                 \cup (IF "D/b" \in DOMAIN fs THEN {"D"} ELSE {})
  /\ changes = 0
  /\ runs = 0
  /\ clean = FALSE
  /\ follows = FALSE
  /\ pc = "idle"
  /\ cfg = [password |-> FALSE, dryRun |-> FALSE, fullSync |-> FALSE]
  /\ manifest = EmptyManifest
  /\ loaded = EmptyManifest
  /\ stats = ZeroStats
  /\ filesToSync = <<>>
  /\ stack = <<>>
  /\ current = 0
  /\ http = NoHttp
  /\ exitCode = -1
  /\ class = [f \in Files |-> "none"]
  /\ called = {}
  /\ succeeded = {}
  /\ failed = {}
  /\ written = {}
  /\ parse = NoParse
  /\ walk = NoWalk
  /\ crawl = NoCrawl
  /\ shell = NoShell
  /\ folders = {"", "D"}

\* ------------------------------------------------- fragments of handlers
Top == stack[Len(stack)]

Pop == SubSeq(stack, 1, Len(stack) - 1)

PropfindSent(path) ==
  [op |-> "propfind", target |-> path, stage |-> "sent", sent |-> 1,
   authSent |-> 0, challenged |-> FALSE, first |-> 0, retry |-> 0,
   redir |-> 0, location |-> FALSE, reqs |-> <<Req("folder", FALSE)>>,
   result |-> "none"]

Frame(path) == [path |-> path, items |-> <<>>, listed |-> FALSE]

\* propfind resolved: scanFolder goes on with the items
ListingResolved(h, items) ==
  /\ stack' = [stack EXCEPT ![Len(stack)] =
                 [path |-> Top.path, items |-> items, listed |-> TRUE]]
  /\ http' = [h EXCEPT !.stage = "settled", !.result = "ok"]
  /\ UNCHANGED <<remote, changes, manifestFile, dirs, runs, clean, follows, pc, cfg,
                 manifest, loaded, stats, filesToSync, current, exitCode,
                 class, called, succeeded, failed, written, everDownloaded>>

\* propfind rejected: the catch block of scanFolder
ListingRejected(h, e) ==
  /\ stats' = [stats EXCEPT !.errors = Append(@, ScanErr(Top.path, e))]
  /\ written' = written \cup {W("log", "")}
  /\ stack' = Pop
  /\ http' = [h EXCEPT !.stage = "settled", !.result = "fail"]
  /\ UNCHANGED <<remote, changes, manifestFile, dirs, runs, clean, follows, pc, cfg,
                 manifest, loaded, filesToSync, current, exitCode, class,
                 called, succeeded, failed, everDownloaded>>

SettleDownload_NoBytes(ok, file, w) ==
  IF ok
    THEN /\ stats' = [stats EXCEPT !.filesDownloaded = @ + 1]
         /\ manifest' = ManifestAfterSuccess(manifest, file)
         /\ succeeded' = succeeded \cup {file.relativePath}
         /\ failed' = failed
         /\ written' = w
    ELSE /\ stats' = [stats EXCEPT
                        !.errors = Append(@, Err("download", file.relativePath))]
         /\ manifest' = manifest
         /\ succeeded' = succeeded
         /\ failed' = failed \cup {file.relativePath}
         /\ written' = w \cup {W("log", "")}

\* the continuation of syncFiles after await downloadFile(...)
SettleDownload(ok, file, w) ==
  IF ok
    THEN /\ stats' = [stats EXCEPT !.filesDownloaded = @ + 1,
                                   !.bytesDownloaded = @ + file.size]
         /\ manifest' = ManifestAfterSuccess(manifest, file)
         /\ succeeded' = succeeded \cup {file.relativePath}
         /\ failed' = failed
         /\ written' = w
    ELSE /\ stats' = [stats EXCEPT
                        !.errors = Append(@, Err("download", file.relativePath))]
         /\ manifest' = manifest
         /\ succeeded' = succeeded
         /\ failed' = failed \cup {file.relativePath}
         /\ written' = w \cup {W("log", "")}

\* downloadFile resolved with ok after a real exchange
Resolve(h, ok, w) ==
  /\ http' = [h EXCEPT !.stage = "settled",
                          !.result = IF ok THEN "ok" ELSE "fail"]
  /\ SettleDownload(ok, filesToSync[current], w)
  /\ everDownloaded' = IF ok THEN everDownloaded \cup {http.target}
                             ELSE everDownloaded
  /\ UNCHANGED <<remote, changes, manifestFile, dirs, runs, clean, follows, pc, cfg,
                 loaded, filesToSync, stack, current, exitCode, class, called>>

\* ---------------------------------------------------------------- actions
\* main(): credential check, log, mkdir backupDir, loadManifest,
\* scanFolder('') up to its first await
StartRun(pw, dry, full, mk) ==
  /\ UNCHANGED <<parse, walk, crawl, shell, folders>>
  /\ pc \in Ended
  /\ runs < MaxRuns
  /\ runs' = runs + 1
  /\ follows' = clean
  /\ clean' = FALSE
  /\ cfg' = [password |-> pw, dryRun |-> dry, fullSync |-> full]
  /\ filesToSync' = <<>>
  /\ current' = 0
  /\ class' = [f \in Files |-> "none"]
  /\ called' = {}
  /\ succeeded' = {}
  /\ failed' = {}
  /\ UNCHANGED <<remote, changes, manifestFile, everDownloaded>>
  /\ IF CredentialMissing(pw)
       THEN /\ pc' = "usage"
            /\ exitCode' = 1
            /\ written' = {}
            /\ manifest' = EmptyManifest
            /\ loaded' = EmptyManifest
            /\ stats' = ZeroStats
            /\ stack' = <<>>
            /\ http' = NoHttp
            /\ dirs' = dirs
       ELSE IF "" \notin dirs /\ ~mk
       THEN /\ pc' = "fatal"
            /\ exitCode' = 1
            /\ written' = {W("log", "")}
            /\ manifest' = EmptyManifest
            /\ loaded' = EmptyManifest
            /\ stats' = ZeroStats
            /\ stack' = <<>>
            /\ http' = NoHttp
            /\ dirs' = dirs
       ELSE IF ManifestUnusable
       THEN /\ pc' = "fatal"
            /\ exitCode' = 1
            /\ written' = {W("log", "")} \cup
                          (IF "" \notin dirs THEN {W("backupDir", "")} ELSE {})
            /\ dirs' = dirs \cup {""}
            /\ manifest' = EmptyManifest
            /\ loaded' = EmptyManifest
            /\ stats' = ZeroStats
            /\ stack' = <<>>
            /\ http' = NoHttp
       ELSE /\ pc' = "scanning"
            /\ exitCode' = -1
            /\ written' = {W("log", "")} \cup
                          (IF "" \notin dirs THEN {W("backupDir", "")} ELSE {})
            /\ dirs' = dirs \cup {""}
            /\ manifest' = LoadManifest
            /\ loaded' = LoadManifest
            /\ stats' = [ZeroStats EXCEPT !.foldersScanned = 1]
            /\ stack' = <<Frame("")>>
            /\ http' = PropfindSent("")

\* the server's files change between two runs
RemoteChange(f, s, t) ==
  /\ UNCHANGED <<parse, walk, crawl, shell, folders>>
  /\ pc \in Ended
  /\ f \in Mutable
  /\ changes < MaxChanges
  /\ changes' = changes + 1
  /\ remote[f] # [size |-> s, time |-> t]
  /\ remote' = [remote EXCEPT ![f] = [size |-> s, time |-> t]]
  /\ clean' = FALSE
  /\ UNCHANGED <<manifestFile, dirs, runs, follows, pc, cfg, manifest, loaded,
                 stats, filesToSync, stack, current, http, exitCode, class,
                 called, succeeded, failed, written, everDownloaded>>

\* propfind: callback of the first PROPFIND request
PropfindResponse(r) ==
  /\ UNCHANGED <<parse, walk, crawl, shell, folders>>
  /\ pc = "scanning"
  /\ http.op = "propfind" /\ http.stage = "sent"
  /\ IF r.status = 401
       THEN IF r.challenge
              THEN /\ http' = [http EXCEPT !.stage = "authsent", !.sent = 2,
                                 !.authSent = 1, !.challenged = TRUE,
                                 !.first = r.status,
                                 !.reqs = Append(@, Req("folder", TRUE))]
                   /\ UNCHANGED <<remote, changes, manifestFile, dirs, runs, clean,
                        follows, pc, cfg, manifest, loaded, stats,
                        filesToSync, stack, current, exitCode, class, called,
                        succeeded, failed, written, everDownloaded>>
              \* neither resolve nor reject is called: main() never goes on,
              \* and the process ends when nothing is left to wait for
              ELSE /\ http' = [http EXCEPT !.stage = "hung",
                                           !.first = r.status]
                   /\ pc' = "hung"
                   /\ exitCode' = 0
                   /\ UNCHANGED <<remote, changes, manifestFile, dirs, runs, clean,
                        follows, cfg, manifest, loaded, stats, filesToSync,
                        stack, current, class, called, succeeded, failed,
                        written, everDownloaded>>
       ELSE ListingResolved([http EXCEPT !.first = r.status],
                            IF r.status = 207 THEN Listing(Top.path)
                                              ELSE <<>>)

\* propfind: req.on('error', reject)
PropfindTransportError ==
  /\ UNCHANGED <<parse, walk, crawl, shell, folders>>
  /\ pc = "scanning"
  /\ http.op = "propfind" /\ http.stage = "sent"
  /\ ListingRejected(http, TransportError)

\* propfind: callback of the authenticated PROPFIND request
PropfindAuthResponse(r) ==
  /\ UNCHANGED <<parse, walk, crawl, shell, folders>>
  /\ pc = "scanning"
  /\ http.op = "propfind" /\ http.stage = "authsent"
  /\ LET seen == [http EXCEPT !.retry = r.status]
     IN IF r.status = 207 THEN ListingResolved(seen, Listing(Top.path))
                          ELSE ListingRejected(seen, HttpError(r.status))

\* propfind: authReq has no 'error' listener, the error event is thrown
\* as an uncaught exception
PropfindAuthTransportError ==
  /\ UNCHANGED <<parse, walk, crawl, shell, folders>>
  /\ pc = "scanning"
  /\ http.op = "propfind" /\ http.stage = "authsent"
  /\ pc' = "crashed"
  /\ exitCode' = 1
  /\ http' = [http EXCEPT !.stage = "settled", !.result = "fail"]
  /\ UNCHANGED <<remote, changes, manifestFile, dirs, runs, clean, follows, cfg,
                 manifest, loaded, stats, filesToSync, stack, current, class,
                 called, succeeded, failed, written, everDownloaded>>

\* scanFolder: one iteration of for (const item of items)
ScanItem ==
  /\ UNCHANGED <<parse, walk, crawl, shell, folders>>
  /\ pc = "scanning"
  /\ ~InFlight
  /\ stack # <<>>
  /\ Top.listed /\ Top.items # <<>>
  /\ LET item == Head(Top.items)
         rest == [stack EXCEPT ![Len(stack)].items = Tail(Top.items)]
     IN IF item.isFolder
          THEN /\ stack' = Append(rest, Frame(item.relativePath))
               /\ stats' = [stats EXCEPT !.foldersScanned = @ + 1]
               /\ http' = PropfindSent(item.relativePath)
               /\ UNCHANGED <<filesToSync, class>>
          ELSE LET st == SyncStatus(item, manifest)
               IN /\ stack' = rest
                  /\ stats' = [stats EXCEPT
                       !.filesFound = @ + 1,
                       !.filesNew = IF st = "new" THEN @ + 1 ELSE @,
                       !.filesModified = IF st = "modified" THEN @ + 1 ELSE @,
                       !.filesUnchanged =
                          IF st = "unchanged" THEN @ + 1 ELSE @]
                  /\ filesToSync' = IF st \in {"new", "modified"}
                                      THEN Append(filesToSync, item)
                                      ELSE filesToSync
                  /\ class' = [class EXCEPT ![item.relativePath] = st]
                  /\ http' = http
  /\ UNCHANGED <<remote, changes, manifestFile, dirs, runs, clean, follows, pc, cfg,
                 manifest, loaded, current, exitCode, called, succeeded,
                 failed, written, everDownloaded>>

\* scanFolder: the loop is over, the call returns to its caller
ScanReturn ==
  /\ UNCHANGED <<parse, walk, crawl, shell, folders>>
  /\ pc = "scanning"
  /\ ~InFlight
  /\ stack # <<>>
  /\ Top.listed /\ Top.items = <<>>
  /\ stack' = Pop
  /\ UNCHANGED <<remote, changes, manifestFile, dirs, runs, clean, follows, pc, cfg,
                 manifest, loaded, stats, filesToSync, current, http,
                 exitCode, class, called, succeeded, failed, written,
                 everDownloaded>>

\* main(): scanFolder('') has returned; log 'Scan complete'
ScanComplete ==
  /\ UNCHANGED <<parse, walk, crawl, shell, folders>>
  /\ pc = "scanning"
  /\ ~InFlight
  /\ stack = <<>>
  /\ pc' = "syncing"
  /\ written' = written \cup {W("log", "")}
  /\ UNCHANGED <<remote, changes, manifestFile, dirs, runs, clean, follows, cfg,
                 manifest, loaded, stats, filesToSync, stack, current, http,
                 exitCode, class, called, succeeded, failed, everDownloaded>>

GetSent_SameFile(path) ==
  [op |-> "get", target |-> "a", stage |-> "sent", sent |-> 1,
   authSent |-> 0, challenged |-> FALSE, first |-> 0, retry |-> 0,
   redir |-> 0, location |-> FALSE, reqs |-> <<Req("file", FALSE)>>,
   result |-> "none"]

GetSent(path) ==
  [op |-> "get", target |-> path, stage |-> "sent", sent |-> 1,
   authSent |-> 0, challenged |-> FALSE, first |-> 0, retry |-> 0,
   redir |-> 0, location |-> FALSE, reqs |-> <<Req("file", FALSE)>>,
   result |-> "none"]

\* syncFiles: the next iteration of for (const file of filesToSync), and
\* downloadFile up to its first request
SyncNext(mk) ==
  /\ UNCHANGED <<parse, walk, crawl, shell, folders>>
  /\ pc = "syncing"
  /\ ~InFlight
  /\ current < Len(filesToSync)
  /\ LET file == filesToSync[current + 1]
         path == file.relativePath
         dir == Dirname(path)
     IN /\ current' = current + 1
        /\ called' = called \cup {path}
        /\ IF DownloadShortCircuits
             THEN /\ http' = [GetSent(path) EXCEPT !.stage = "settled",
                                !.sent = 0, !.reqs = <<>>, !.result = "ok"]
                  /\ SettleDownload(TRUE, file, written)
                  /\ UNCHANGED <<dirs, pc, exitCode>>
             ELSE IF dir \notin dirs /\ ~mk
             \* fs.mkdirSync throws: downloadFile rejects, syncFiles and
             \* main reject, main().catch logs and exits
             THEN /\ http' = [GetSent(path) EXCEPT !.stage = "settled",
                                !.sent = 0, !.reqs = <<>>, !.result = "threw"]
                  /\ pc' = "fatal"
                  /\ exitCode' = 1
                  /\ failed' = failed \cup {path}
                  /\ written' = written \cup {W("log", "")}
                  /\ UNCHANGED <<dirs, stats, manifest, succeeded>>
             ELSE /\ http' = GetSent(path)
                  /\ dirs' = dirs \cup {dir}
                  /\ written' = IF dir \notin dirs
                                  THEN written \cup {W("dir", dir)}
                                  ELSE written
                  /\ UNCHANGED <<pc, exitCode, stats, manifest, succeeded,
                                 failed>>
  /\ UNCHANGED <<remote, changes, manifestFile, runs, clean, follows, cfg, loaded,
                 filesToSync, stack, class, everDownloaded>>

Forward(h) ==
  /\ http' = h
  /\ UNCHANGED <<remote, changes, manifestFile, dirs, runs, clean, follows, pc, cfg,
                 manifest, loaded, stats, filesToSync, stack, current,
                 exitCode, class, called, succeeded, failed, written,
                 everDownloaded>>

\* downloadFile: handleResponse(res, isAuth) for the first GET and for the
\* authenticated GET
GetResponse(r) ==
  /\ UNCHANGED <<parse, walk, crawl, shell, folders>>
  /\ pc = "syncing"
  /\ http.op = "get" /\ http.stage \in {"sent", "authsent"}
  /\ LET isAuth == http.stage = "authsent"
         seen == IF isAuth THEN [http EXCEPT !.retry = r.status,
                                             !.location = r.location]
                           ELSE [http EXCEPT !.first = r.status,
                                             !.location = r.location]
     IN IF IsRedirect(r)
          THEN Forward([seen EXCEPT !.stage = "redirsent", !.sent = @ + 1,
                          !.reqs = Append(@, RedirectRequest)])
        ELSE IF AuthRetry(r, isAuth)
          THEN IF r.challenge
                 THEN Forward([seen EXCEPT !.stage = "authsent",
                                 !.sent = @ + 1, !.authSent = @ + 1,
                                 !.challenged = TRUE,
                                 !.reqs = Append(@, Req("file", TRUE))])
                 ELSE Resolve(seen, FALSE, written)
        ELSE IF r.status = 200
          THEN Forward([seen EXCEPT !.stage = "writing"])
        ELSE Resolve(seen, FALSE, written)

\* downloadFile: req.on('error') and authReq.on('error')
GetTransportError ==
  /\ UNCHANGED <<parse, walk, crawl, shell, folders>>
  /\ pc = "syncing"
  /\ http.op = "get" /\ http.stage \in {"sent", "authsent"}
  /\ Resolve(http, FALSE, written)

\* downloadFile: callback of the redirect request
RedirectResponse(r) ==
  /\ UNCHANGED <<parse, walk, crawl, shell, folders>>
  /\ pc = "syncing"
  /\ http.op = "get" /\ http.stage = "redirsent"
  /\ IF RedirectSucceeds(r)
       THEN Forward([http EXCEPT !.stage = "writing", !.redir = r.status])
       ELSE Resolve([http EXCEPT !.redir = r.status], FALSE, written)

\* downloadFile: redirectReq.on('error')
RedirectTransportError ==
  /\ UNCHANGED <<parse, walk, crawl, shell, folders>>
  /\ pc = "syncing"
  /\ http.op = "get" /\ http.stage = "redirsent"
  /\ Resolve(http, FALSE, written)

\* downloadFile: file.on('finish')
WriteFinish ==
  /\ UNCHANGED <<parse, walk, crawl, shell, folders>>
  /\ pc = "syncing"
  /\ http.op = "get" /\ http.stage = "writing"
  /\ Resolve(http, TRUE, written \cup {W("file", http.target)})

\* downloadFile: file.on('error')
WriteError ==
  /\ UNCHANGED <<parse, walk, crawl, shell, folders>>
  /\ pc = "syncing"
  /\ http.op = "get" /\ http.stage = "writing"
  /\ Resolve(http, FALSE, written)

WithTotals_KeepsLoaded(m) == m

\* main(): manifest.totalFiles = Object.keys(manifest.files).length and
\* manifest.totalSize = the sum of the sizes of Object.values(manifest.files)
WithTotals(m) ==
  [m EXCEPT !.totalFiles = Cardinality(DOMAIN m.files),
            !.totalSize = SumSizes(m.files)]

Stamped_Both(m) == [m EXCEPT !.lastFullSync = runs, !.lastIncrementalSync = runs]

\* main(): if (CONFIG.fullSync) manifest.lastFullSync = now, else
\* manifest.lastIncrementalSync = now
Stamped(m) ==
  [m EXCEPT !.lastFullSync = IF cfg.fullSync THEN runs ELSE @,
            !.lastIncrementalSync = IF cfg.fullSync THEN @ ELSE runs]

\* main(): totals, time stamp, saveManifest, report, exit status
Finalize ==
  /\ UNCHANGED <<parse, walk, crawl, shell, folders>>
  /\ pc = "syncing"
  /\ ~InFlight
  /\ current = Len(filesToSync)
  /\ manifest' = Stamped(WithTotals(manifest))
  /\ manifestFile' = SaveManifest(manifest')
  /\ written' = written \cup {W("log", "")} \cup
                (IF ~cfg.dryRun THEN {W("manifest", ""), W("report", "")}
                                ELSE {})
  /\ pc' = "done"
  /\ exitCode' = IF stats.errors # <<>> THEN 1 ELSE 0
  /\ clean' = (~cfg.dryRun /\ ~cfg.fullSync /\ stats.errors = <<>>)
  /\ UNCHANGED <<remote, changes, dirs, runs, follows, cfg, loaded, stats, filesToSync,
                 stack, current, http, class, called, succeeded, failed,
                 everDownloaded>>

\* main() up to saveManifest, and fs.writeFileSync cut short: the file is
\* opened with flag 'w', which truncates it, and the text is then written
\* into it; the write fails (the exception goes to main().catch) or the
\* process is killed before the whole text is in the file
FinalizeInterrupted(how) ==
  /\ UNCHANGED <<parse, walk, crawl, shell, folders>>
  /\ pc = "syncing"
  /\ ~InFlight
  /\ current = Len(filesToSync)
  /\ ~cfg.dryRun
  /\ manifest' = Stamped(WithTotals(manifest))
  /\ manifestFile' = Damaged("invalid", manifest')
  /\ IF how = "failed"
       THEN /\ pc' = "fatal"
            /\ exitCode' = 1
            /\ written' = written \cup {W("manifest", ""), W("log", "")}
       ELSE /\ pc' = "killed"
            /\ exitCode' = 137
            /\ written' = written \cup {W("manifest", "")}
  /\ clean' = FALSE
  /\ UNCHANGED <<remote, changes, dirs, runs, follows, cfg, loaded, stats, filesToSync,
                 stack, current, http, class, called, succeeded, failed,
                 everDownloaded>>

\* the first run of the program on a given disk and server
FirstRun(pw, dry, full, mk) == runs = 0 /\ StartRun(pw, dry, full, mk)

\* the state of the server's files before the first run
RemoteBefore(f, s, t) == runs = 0 /\ RemoteChange(f, s, t)

\* one run, from any manifest and any server state
Next ==
  \/ \E pw \in BOOLEAN, dry \in BOOLEAN, full \in BOOLEAN, mk \in BOOLEAN :
       FirstRun(pw, dry, full, mk)
  \/ \E f \in Files, s \in 1..MaxSize, t \in 1..MaxTime : RemoteBefore(f, s, t)
  \/ \E r \in Responses : PropfindResponse(r)
  \/ PropfindTransportError
  \/ \E r \in Responses : PropfindAuthResponse(r)
  \/ PropfindAuthTransportError
  \/ ScanItem
  \/ ScanReturn
  \/ ScanComplete
  \/ \E mk \in BOOLEAN : SyncNext(mk)
  \/ \E r \in Responses : GetResponse(r)
  \/ GetTransportError
  \/ \E r \in Responses : RedirectResponse(r)
  \/ RedirectTransportError
  \/ WriteFinish
  \/ WriteError
  \/ Finalize

Spec == Init /\ [][Next]_vars

\* up to MaxRuns runs one after the other, the server's files changing in
\* between
NextRuns ==
  \/ \E pw \in BOOLEAN, dry \in BOOLEAN, full \in BOOLEAN, mk \in BOOLEAN :
       StartRun(pw, dry, full, mk)
  \/ \E f \in Files, s \in 1..MaxSize, t \in 1..MaxTime : RemoteChange(f, s, t)
  \/ \E r \in Responses : PropfindResponse(r)
  \/ PropfindTransportError
  \/ \E r \in Responses : PropfindAuthResponse(r)
  \/ PropfindAuthTransportError
  \/ ScanItem
  \/ ScanReturn
  \/ ScanComplete
  \/ \E mk \in BOOLEAN : SyncNext(mk)
  \/ \E r \in Responses : GetResponse(r)
  \/ GetTransportError
  \/ \E r \in Responses : RedirectResponse(r)
  \/ RedirectTransportError
  \/ WriteFinish
  \/ WriteError
  \/ Finalize

SpecRuns == Init /\ [][NextRuns]_vars

TypeOK ==
  /\ pc \in Ended \cup {"scanning", "syncing"}
  /\ runs \in 0..MaxRuns
  /\ current \in 0..Len(filesToSync)

\* ------------------------------------------------------- derived notions
Running == pc \in {"scanning", "syncing"}

\* main() got past loadManifest in this run
Loaded == pc \in {"scanning", "syncing", "done", "hung", "crashed"}
          \/ (pc = "fatal" /\ called # {})

Discovered == {f \in Files : class[f] # "none"}

ToSyncPaths == {filesToSync[i].relativePath : i \in 1..Len(filesToSync)}

ErrorSet == {stats.errors[i] : i \in 1..Len(stats.errors)}

SameEntry(m1, m2, p) ==
  /\ (p \in DOMAIN m1.files) = (p \in DOMAIN m2.files)
  /\ p \in DOMAIN m1.files => m1.files[p] = m2.files[p]

\* the loaded manifest has an entry for f with the size and time the
\* server reports now
Matches(f) ==
  /\ f \in DOMAIN loaded.files
  /\ loaded.files[f].size = remote[f].size
  /\ loaded.files[f].lastModifiedTime = remote[f].time

\* ------------------------------------------------------------------ C1
\* C1: a run that immediately follows an incremental, non-dry run which
\* completed with an empty error list, the remote files unchanged in
\* between, classifies every discovered file as unchanged when it is
\* incremental, and never invokes the Downloader.
C1_SecondRunDownloadsNothing ==
  (follows /\ Loaded /\ ~cfg.fullSync) =>
     /\ \A f \in Files : class[f] \in {"none", "unchanged"}
     /\ called = {}

\* ------------------------------------------------------------------ C2
\* C2: in an incremental run a discovered file whose manifest entry has the
\* size and time of the current listing is classified unchanged, is not on
\* the to-sync list, and no download is invoked or requested for it.
C2_MatchingFileNotDownloaded ==
  (Running /\ ~cfg.fullSync) =>
     \A f \in Discovered :
        Matches(f) =>
           /\ class[f] = "unchanged"
           /\ f \notin ToSyncPaths
           /\ f \notin called
           /\ ~(http.op = "get" /\ http.target = f)

C2_Witness ==
  /\ pc = "syncing" /\ ~cfg.fullSync /\ ~cfg.dryRun
  /\ current = Len(filesToSync) /\ ~InFlight
  /\ succeeded # {}
  /\ \E f \in Discovered : Matches(f) /\ class[f] = "unchanged"

\* ------------------------------------------------------------------ C3
\* the rule as the specification words it
ReferenceRule(file, m) ==
  LET p == file.relativePath
  IN CASE p \notin DOMAIN m.files -> "new"
       [] p \in DOMAIN m.files
            /\ file.size = m.files[p].size
            /\ file.lastModifiedTime <= m.files[p].lastModifiedTime
          -> "unchanged"
       [] OTHER -> "modified"

\* C3: needsSync gives 'new' without an entry, 'modified' when the remote
\* time is strictly greater than the stored one or the sizes differ, and
\* 'unchanged' otherwise; the scan of an incremental run classifies every
\* file by that rule.
C3_NeedsSyncIsTheRule ==
  /\ \A f \in Files, sz \in 1..MaxSize, t \in 1..MaxTime :
       LET file == [relativePath |-> f, isFolder |-> FALSE, size |-> sz,
                    lastModifiedTime |-> t]
       IN /\ NeedsSync(file, loaded) = ReferenceRule(file, loaded)
          /\ NeedsSync(file, manifest) = ReferenceRule(file, manifest)
  /\ (Running /\ ~cfg.fullSync) =>
       \A f \in Discovered : class[f] = ReferenceRule(FileInfo(f), loaded)

\* a file whose remote time is older than the stored one, with equal size,
\* has been classified unchanged
C3_Witness ==
  /\ Running /\ ~cfg.fullSync
  /\ \E f \in Discovered :
       /\ f \in DOMAIN loaded.files
       /\ remote[f].time < loaded.files[f].lastModifiedTime
       /\ remote[f].size = loaded.files[f].size
       /\ class[f] = "unchanged"

\* ------------------------------------------------------------------ C4
\* C4: whenever the download of a file has failed in this run, its manifest
\* entry is as it was loaded and an error for the file is on the error
\* list.
C4_FailureKeepsEntryAndRecordsError ==
  \A f \in failed :
     /\ SameEntry(manifest, loaded, f)
     /\ Err("download", f) \in ErrorSet

\* ------------------------------------------------------------------ C5
\* C5: in every state of a run the manifest in memory has an entry for a
\* path exactly when that file has really been downloaded at least once,
\* and it has no entry for a folder.
C5_EntryIffDownloaded ==
  (Loaded /\ pc # "fatal") =>
     /\ \A p \in Paths :
          (p \in DOMAIN manifest.files) = (p \in everDownloaded)
     /\ \A d \in Folders : d \notin DOMAIN manifest.files

\* ------------------------------------------------------------------ C6
\* C6: in a forced full sync every discovered file is classified new and
\* is on the to-sync list, whatever the manifest holds; the Downloader has
\* been invoked for every file of the list up to the current one, and for
\* every discovered file once the run is done.
C6_FullSyncDownloadsEveryFile ==
  (cfg.fullSync /\ pc \in {"scanning", "syncing", "done"}) =>
     /\ \A f \in Discovered : class[f] = "new" /\ f \in ToSyncPaths
     /\ stats.filesModified = 0 /\ stats.filesUnchanged = 0
     /\ \A i \in 1..current : filesToSync[i].relativePath \in called
     /\ pc = "done" => Discovered \subseteq called

\* a full sync is done and has invoked the Downloader for a file whose
\* manifest entry has exactly the size and time of the listing
C6_Witness ==
  /\ pc = "done" /\ cfg.fullSync /\ changes = 0
  /\ \E f \in Discovered : Matches(f) /\ f \in called

\* ------------------------------------------------------------------ C7
\* C7: no run removes a manifest entry: every path of the loaded manifest
\* keeps an entry in memory and on disk, and the entry of a path that this
\* run did not discover is unchanged.
C7_NoEntryRemoved ==
  (pc \in {"scanning", "syncing", "done"}) =>
     \A p \in DOMAIN loaded.files :
        /\ p \in DOMAIN manifest.files
        /\ p \in DOMAIN LoadManifest.files
        /\ p \notin Discovered =>
             /\ manifest.files[p] = loaded.files[p]
             /\ LoadManifest.files[p] = loaded.files[p]

\* a run that downloaded a file is done and has saved a manifest which
\* still holds the stale path and a file of a branch the scan abandoned
C7_Witness ==
  /\ pc = "done" /\ ~cfg.dryRun
  /\ succeeded # {}
  /\ manifestFile.content = manifest
  /\ StalePath \in DOMAIN manifest.files
  /\ \E f \in Files : f \in DOMAIN loaded.files /\ f \notin Discovered

\* ------------------------------------------------------------------ C8
\* C8: a dry run creates or modifies nothing on disk.
C8_DryRunWritesNothing ==
  (cfg.dryRun /\ pc # "idle") => written = {}

\* ------------------------------------------------------------------ C9
\* C9: in a dry run every invocation of the Downloader returns success,
\* sends no request and creates no directory and no file.
C9_DryRunDownloadIsANoOp ==
  cfg.dryRun =>
     /\ called = succeeded
     /\ failed = {}
     /\ http.op = "get" => http.sent = 0 /\ http.result = "ok"
     /\ \A w \in written : w.kind \notin {"dir", "file"}

\* a dry run has invoked the Downloader for a file whose directory does
\* not exist in the mirror
C9_Witness ==
  /\ cfg.dryRun
  /\ "D/b" \in called
  /\ "D" \notin dirs

\* ----------------------------------------------------------------- C10
Settled == http.op = "get" /\ http.stage = "settled"

\* C10 as stated: after a 401 with a parsable challenge exactly one
\* authenticated GET is sent; a 200 on it makes the download succeed, a
\* 401 on it makes the download fail with no further request.
C10_RetrySucceedsOn200 ==
  (http.op = "get" /\ http.challenged) =>
     /\ http.authSent = 1
     /\ (Settled /\ http.retry = 200) => http.result = "ok"
     /\ http.retry = 401 =>
          Settled /\ http.result = "fail" /\ http.sent = 2

\* C10 amended: after a 401 with a parsable challenge exactly one
\* authenticated GET is sent; a 200 on it ends the exchange with no further
\* request, and the download succeeds exactly when the body has been
\* written to the destination; a 401 on it makes the download fail with no
\* further request.
C10_AuthProtocol ==
  /\ http.op = "get" => http.authSent <= 1
  /\ (http.op = "get" /\ http.challenged) =>
       /\ http.authSent = 1
       /\ http.retry = 200 => http.sent = 2
       /\ (Settled /\ http.retry = 200) =>
            (http.result = "ok") = (W("file", http.target) \in written)
       /\ http.retry = 401 =>
            Settled /\ http.result = "fail" /\ http.sent = 2

\* a download was challenged, retried once, got 200 and succeeded
C10_Witness ==
  /\ Settled /\ http.challenged
  /\ http.first = 401 /\ http.retry = 200
  /\ http.sent = 2 /\ http.authSent = 1
  /\ http.result = "ok"

\* ----------------------------------------------------------------- C11
\* the GETs of the exchange that went to a redirect target
RedirectGets == {i \in 1..Len(http.reqs) : http.reqs[i].url = "location"}

\* the status handleResponse saw last
LastHandled == IF http.retry # 0 THEN http.retry ELSE http.first

Listed == http.op = "propfind" /\ http.stage = "settled"

LastError == stats.errors[Len(stats.errors)]

\* C12 as stated: a listing sends at most two PROPFIND requests; after a
\* first 401 exactly one retry with the Digest header has been sent; a
\* second 401 makes the listing fail with an error that is not the error
\* of a transport failure.
C12_RetriesOnEveryFirst401 ==
  http.op = "propfind" =>
     /\ Len(http.reqs) <= 2
     /\ http.first = 401 =>
          http.reqs = <<Req("folder", FALSE), Req("folder", TRUE)>>
     /\ http.retry = 401 =>
          /\ Listed /\ http.result = "fail"
          /\ LastError = ScanErr(http.target, HttpError(401))
          /\ LastError.cause # TransportError

\* C12 amended: a listing sends at most two PROPFIND requests; the second
\* one is sent exactly after a first 401 whose challenge has a realm and
\* a nonce, and it carries the Digest header; a second 401 makes the
\* listing fail with the error 'HTTP 401' and no further request, and the
\* error of a failed listing says 'HTTP <status>' exactly when a retry was
\* answered, and is the transport error otherwise.
C12_ListingAuthProtocol ==
  http.op = "propfind" =>
     /\ Len(http.reqs) <= 2
     /\ http.reqs[1] = Req("folder", FALSE)
     /\ (http.first = 401 /\ http.challenged) =
          (http.reqs = <<Req("folder", FALSE), Req("folder", TRUE)>>)
     /\ http.retry = 401 =>
          /\ Listed /\ http.result = "fail"
          /\ LastError = ScanErr(http.target, HttpError(401))
          /\ LastError.cause # TransportError
     /\ (Listed /\ http.result = "fail" /\ pc # "crashed") =>
          /\ LastError.path = http.target
          /\ (LastError.cause.type = "http") = (http.retry # 0)
          /\ (LastError.cause = TransportError) = (http.first = 0)

\* the listing of D was challenged, retried with the Digest header and
\* answered 401 again
C12_Witness ==
  /\ Listed /\ http.target = "D" /\ http.result = "fail"
  /\ http.first = 401 /\ http.challenged /\ http.retry = 401
  /\ http.reqs = <<Req("folder", FALSE), Req("folder", TRUE)>>
  /\ LastError = ScanErr("D", HttpError(401))

\* ----------------------------------------------------------------- C13
\* the status of the last PROPFIND response of the call (0: none came)
FinalStatus == IF http.retry # 0 THEN http.retry ELSE http.first

\* C13: a listing that has settled resolved with entries only if its final
\* response status is 207; with any other final status, on the first
\* response or on the retry, it has failed, and the error recorded for
\* the folder carries that status.
C13_OnlyA207IsAListing ==
  (Listed /\ pc # "crashed") =>
     /\ http.result = "ok" => FinalStatus = 207
     /\ (FinalStatus # 0 /\ FinalStatus # 207) =>
          /\ http.result = "fail"
          /\ LastError = ScanErr(http.target, HttpError(FinalStatus))

\* ----------------------------------------------------------------- C14
\* C14: once a listing or a download has received a first 401 whose
\* challenge has no parsable realm or nonce, the call has settled as
\* failed and has sent no request but the first one.
C14_UnparsableChallengeFailsAtOnce ==
  (http.op \in {"propfind", "get"} /\ http.first = 401
      /\ ~http.challenged) =>
     /\ http.stage = "settled"
     /\ http.result = "fail"
     /\ Len(http.reqs) = 1

\* ----------------------------------------------------------------- C15
\* the listing of the root got a 401 without realm or nonce, or a 401 on
\* the authenticated retry
RootAuthFailed ==
  /\ http.op = "propfind" /\ http.target = ""
  /\ \/ http.first = 401 /\ ~http.challenged
     \/ http.retry = 401

\* C15: after an authentication failure of the root listing the run goes
\* neither to syncing nor to finalising, no file has been found or
\* downloaded, and when the process has ended its exit status is a
\* failure.
C15_RootAuthFailureAborts ==
  RootAuthFailed =>
     /\ pc \notin {"syncing", "done"}
     /\ pc \in Ended => exitCode # 0
     /\ stats.filesFound = 0 /\ called = {}

\* ----------------------------------------------------------------- C16
\* the scan errors recorded for a folder
ScanErrorsOf(d) ==
  {i \in 1..Len(stats.errors) :
     stats.errors[i].kind = "scan" /\ stats.errors[i].path = d}

\* the last listing was the one of folder d and it did not succeed: a
\* transport error, a final status other than 207, or a 401 that could
\* not be answered
ListingFailed(d) ==
  /\ http.op = "propfind" /\ http.target = d
  /\ http.stage \in {"settled", "hung"}
  /\ ~(http.result = "ok" /\ FinalStatus = 207)

\* C16: when the listing of the sub-folder D has failed, the run is not
\* aborted, exactly one error naming D is recorded and nothing below D is
\* discovered; and a scan that recorded an error for D only has still
\* discovered the file next to D.
C16_FailedBranchIsIsolated ==
  /\ ListingFailed("D") =>
       /\ pc \notin {"crashed", "hung", "fatal"}
       /\ Cardinality(ScanErrorsOf("D")) = 1
       /\ "D/b" \notin Discovered
  /\ (pc \in {"syncing", "done"} /\ ScanErrorsOf("D") # {}
        /\ ScanErrorsOf("") = {}) =>
       /\ "a" \in Discovered /\ "D/b" \notin Discovered
       /\ stats.foldersScanned = 2

\* ------------------------------------------------ strings and the parser
\* A string is a sequence of tokens: the characters "/", "%", "2", "5",
\* "R", "x", the words ".", ".." and "backups", and one token for a
\* prefix that the pattern ^https:\/\/[^/]+\/resources\/ matches.
BaseToken == "https://h/resources/"

\* the hexadecimal digits among the characters
Hex == {"2", "5"}

\* the character with a given two-digit hexadecimal code
Chr(h1, h2) ==
  CASE h1 = "2" /\ h2 = "2" -> "\""
    [] h1 = "2" /\ h2 = "5" -> "%"
    [] h1 = "5" /\ h2 = "2" -> "R"
    [] h1 = "5" /\ h2 = "5" -> "U"

URIError == [ok |-> FALSE, val |-> <<>>]

Decoded(val) == [ok |-> TRUE, val |-> val]

\* decodeURIComponent: every %hh becomes the character of code hh; a "%"
\* not followed by two hexadecimal digits throws URIError
RECURSIVE DecodeURIComponent(_)
DecodeURIComponent(str) ==
  IF str = <<>> THEN Decoded(<<>>)
  ELSE IF Head(str) = "%"
    THEN IF Len(str) >= 3 /\ str[2] \in Hex /\ str[3] \in Hex
           THEN LET rest == DecodeURIComponent(SubSeq(str, 4, Len(str)))
                IN IF rest.ok
                     THEN Decoded(<<Chr(str[2], str[3])>> \o rest.val)
                     ELSE URIError
           ELSE URIError
  ELSE LET rest == DecodeURIComponent(Tail(str))
       IN IF rest.ok THEN Decoded(<<Head(str)>> \o rest.val) ELSE URIError

\* .replace(/^https:\/\/[^/]+\/resources\//, '')
StripBase(str) ==
  IF str # <<>> /\ Head(str) = BaseToken THEN Tail(str) ELSE str

\* .replace(/\/$/, '')
StripSlash(str) ==
  IF str # <<>> /\ str[Len(str)] = "/" THEN SubSeq(str, 1, Len(str) - 1)
                                       ELSE str

\* a <d:response> block: its href if it has one, and whether it has a
\* <d:collection element
Block(hasHref, href, isFolder) ==
  [hasHref |-> hasHref, href |-> href, isFolder |-> isFolder]

\* parseMultistatus from block i on, items being what is pushed so far
RECURSIVE ParseFrom(_, _, _, _)
ParseFrom(xml, i, currentPath, items) ==
  IF i > Len(xml) THEN [threw |-> FALSE, items |-> items]
  ELSE IF ~xml[i].hasHref THEN ParseFrom(xml, i + 1, currentPath, items)
  ELSE LET href == DecodeURIComponent(xml[i].href)
       IN IF ~href.ok THEN [threw |-> TRUE, items |-> <<>>]
          ELSE LET relativePath == StripSlash(StripBase(href.val))
               IN IF relativePath = currentPath
                     \/ (relativePath = <<>> /\ currentPath = <<>>)
                    THEN ParseFrom(xml, i + 1, currentPath, items)
                    ELSE LET twice == DecodeURIComponent(relativePath)
                         IN IF ~twice.ok
                              THEN [threw |-> TRUE, items |-> <<>>]
                              ELSE ParseFrom(xml, i + 1, currentPath,
                                     Append(items,
                                       [href |-> href.val,
                                        relativePath |-> twice.val,
                                        isFolder |-> xml[i].isFolder]))

ParseMultistatus_NeedsEveryHref(xml, currentPath) ==
  IF \E i \in 1..Len(xml) : ~xml[i].hasHref
    THEN [threw |-> FALSE, items |-> <<>>]
    ELSE ParseFrom(xml, 1, currentPath, <<>>)

\* parseMultistatus(xml, currentPath): the items, or an exception
ParseMultistatus(xml, currentPath) == ParseFrom(xml, 1, currentPath, <<>>)

\* -------------------------------------------- parseMultistatus on its own
\* hrefs a server may write: the root, a folder with and without the
\* final slash, files, a folder whose name is the three characters %52,
\* a file named 5%, an href that is not an absolute URL, and hrefs with
\* a ".." segment
ParseHrefs ==
  { <<BaseToken>>,
    <<BaseToken, "R", "/">>,
    <<BaseToken, "R">>,
    <<BaseToken, "R", "/", "x">>,
    <<BaseToken, "x">>,
    <<BaseToken, "%", "2", "5", "5", "2", "/">>,
    <<BaseToken, "5", "%", "2", "5">>,
    <<"/", "R", "/">>,
    <<BaseToken, "R", "/", "..", "/", "x">>,
    <<BaseToken, "..", "/", "x">> }

ParseBlocks ==
  {Block(TRUE, h, f) : h \in ParseHrefs, f \in BOOLEAN}
    \cup {Block(FALSE, <<>>, f) : f \in BOOLEAN}

ParseBodies == UNION {[1..n -> ParseBlocks] : n \in 1..MaxBlocks}

\* folder paths scanFolder may pass as currentPath
CurrentPaths == {<<>>, <<"R">>, <<"x">>}

\* no backup run is going on
RunIdle ==
  /\ remote = [f \in Files |-> [size |-> 1, time |-> 1]]
  /\ manifestFile = Missing
  /\ everDownloaded = {}
  /\ dirs = {}
  /\ changes = 0
  /\ runs = 0
  /\ clean = FALSE
  /\ follows = FALSE
  /\ pc = "idle"
  /\ cfg = [password |-> FALSE, dryRun |-> FALSE, fullSync |-> FALSE]
  /\ manifest = EmptyManifest
  /\ loaded = EmptyManifest
  /\ stats = ZeroStats
  /\ filesToSync = <<>>
  /\ stack = <<>>
  /\ current = 0
  /\ http = NoHttp
  /\ exitCode = -1
  /\ class = [f \in Files |-> "none"]
  /\ called = {}
  /\ succeeded = {}
  /\ failed = {}
  /\ written = {}

InitParse ==
  /\ RunIdle
  /\ folders = {"", "D"}
  /\ walk = NoWalk
  /\ crawl = NoCrawl
  /\ shell = NoShell
  /\ \E xml \in ParseBodies, currentPath \in CurrentPaths :
       parse = [phase |-> "called", xml |-> xml,
                currentPath |-> currentPath, threw |-> FALSE,
                items |-> <<>>, dests |-> <<>>]

\* the call parseMultistatus(xml, currentPath) returns or throws
ParseCall ==
  /\ parse.phase = "called"
  /\ LET out == ParseMultistatus(parse.xml, parse.currentPath)
     IN parse' = [parse EXCEPT !.phase = "returned", !.threw = out.threw,
                               !.items = out.items]
  /\ UNCHANGED <<run, walk, crawl, shell>>

\* CONFIG.backupDir: './backups'
BackupDir == <<".", "/", "backups">>

\* the segments of a path between its "/" separators
RECURSIVE Segments(_)
Segments(str) ==
  IF str = <<>> THEN << <<>> >>
  ELSE LET rest == Segments(Tail(str))
       IN IF Head(str) = "/"
            THEN << <<>> >> \o rest
            ELSE << <<Head(str)>> \o Head(rest) >> \o Tail(rest)

\* path.normalize on segments: empty and "." segments go, ".." takes the
\* segment before it away, or stays when there is none to take
RECURSIVE Normalize(_, _)
Normalize(segs, out) ==
  IF segs = <<>> THEN out
  ELSE LET seg == Head(segs)
       IN IF seg = <<>> \/ seg = <<".">>
            THEN Normalize(Tail(segs), out)
          ELSE IF seg = <<"..">> /\ out # <<>> /\ out[Len(out)] # <<"..">>
            THEN Normalize(Tail(segs), SubSeq(out, 1, Len(out) - 1))
          ELSE Normalize(Tail(segs), Append(out, seg))

\* path.join(a, b): normalize(a + '/' + b), as a sequence of segments
\* below the working directory
PathJoin(a, b) == Normalize(Segments(a) \o Segments(b), <<>>)

\* syncFiles: destPath = path.join(CONFIG.backupDir, file.relativePath)
DestPath(file) == PathJoin(BackupDir, file.relativePath)

\* syncFiles on the files of the listing: the destination of each one
SyncDests ==
  /\ parse.phase = "returned"
  /\ ~parse.threw
  /\ parse' = [parse EXCEPT
                 !.phase = "synced",
                 !.dests = [i \in 1..Len(parse.items) |->
                              DestPath(parse.items[i])]]
  /\ UNCHANGED <<run, walk, crawl, shell>>

NextParse ==
  \/ ParseCall
  \/ SyncDests

SpecParse == InitParse /\ [][NextParse]_vars

\* ----------------------------------------------------------------- C18
\* C18: the entries parseMultistatus returns for a folder never include
\* an entry whose relative path is the path of that folder.
C18_NoEntryForTheListedFolder ==
  (parse.phase = "returned" /\ ~parse.threw) =>
     \A i \in 1..Len(parse.items) :
        parse.items[i].relativePath # parse.currentPath

\* ------------------------------------------------ the server of the walk
\* names of remote files and folders: R, x, the three characters %52,
\* and 5%
WalkNames == {<<"R">>, <<"x">>, <<"%", "5", "2">>, <<"5", "%">>}

\* the order in which the server lists the items of a folder
NameOrder == <<<<"R">>, <<"x">>, <<"%", "5", "2">>, <<"5", "%">>>>

\* a remote item: the names from the root down to it, and its kind
Node(path, isFolder) == [path |-> path, isFolder |-> isFolder]

\* the folders of a tree, the root included
FolderPaths(tree) == {<<>>} \cup {n.path : n \in {m \in tree : m.isFolder}}

\* the items that can be added to a tree
Addable(tree) ==
  {n \in {Node(Append(d, nm), f) :
            d \in FolderPaths(tree), nm \in WalkNames, f \in BOOLEAN} :
     /\ Len(n.path) <= MaxDepth
     /\ \A m \in tree : m.path # n.path}

RECURSIVE TreesUpTo(_)
TreesUpTo(k) ==
  IF k = 0 THEN {{}}
  ELSE LET prev == TreesUpTo(k - 1)
       IN prev \cup UNION {{tree \cup {n} : n \in Addable(tree)} :
                            tree \in prev}

\* every remote tree of at most MaxNodes items and depth MaxDepth
Trees == TreesUpTo(MaxNodes)

\* the percent-encoding of a name in an href: "%" is written %25
RECURSIVE Encode(_)
Encode(str) ==
  IF str = <<>> THEN <<>>
  ELSE (IF Head(str) = "%" THEN <<"%", "2", "5">> ELSE <<Head(str)>>)
         \o Encode(Tail(str))

\* the names of a path joined by "/", encoded or not
RECURSIVE Join(_, _)
Join(path, encoded) ==
  IF path = <<>> THEN <<>>
  ELSE (IF encoded THEN Encode(Head(path)) ELSE Head(path))
         \o (IF Len(path) > 1 THEN <<"/">> ELSE <<>>)
         \o Join(Tail(path), encoded)

\* the href the server writes for an item
HrefOf(path, isFolder) ==
  <<BaseToken>> \o Join(path, TRUE)
    \o (IF isFolder /\ path # <<>> THEN <<"/">> ELSE <<>>)

\* the items of folder d in listing order
ChildrenOf(tree, d) ==
  LET names == SelectSeq(NameOrder,
                 LAMBDA nm : \E n \in tree : n.path = Append(d, nm))
  IN [i \in 1..Len(names) |->
        CHOOSE n \in tree : n.path = Append(d, names[i])]

\* the 207 body for folder d: the folder itself, then its items
Body(tree, d) ==
  <<Block(TRUE, HrefOf(d, TRUE), TRUE)>> \o
  [i \in 1..Len(ChildrenOf(tree, d)) |->
     Block(TRUE, HrefOf(ChildrenOf(tree, d)[i].path,
                        ChildrenOf(tree, d)[i].isFolder),
           ChildrenOf(tree, d)[i].isFolder)]

\* the folders the request for `${baseUrl}/${folderPath}/` addresses: the
\* server decodes the path of the URL once
Addressed(tree, folderPath) ==
  LET asked == DecodeURIComponent(folderPath)
  IN IF ~asked.ok THEN {}
     ELSE {d \in FolderPaths(tree) : Join(d, FALSE) = asked.val}

\* ------------------------------------------------- the walk on its own
WalkFrame(path) == [path |-> path, items |-> <<>>, listed |-> FALSE]

WalkTop == walk.stack[Len(walk.stack)]

WalkPop == SubSeq(walk.stack, 1, Len(walk.stack) - 1)

\* main(): await scanFolder('', ...) on some remote tree
InitWalk ==
  /\ RunIdle
  /\ folders = {"", "D"}
  /\ parse = NoParse
  /\ crawl = NoCrawl
  /\ shell = NoShell
  /\ \E tree \in Trees :
       walk = [phase |-> "walking", tree |-> tree,
               stack |-> <<WalkFrame(<<>>)>>, foldersScanned |-> 1,
               listed |-> <<>>, found |-> <<>>, failures |-> 0]

\* scanFolder: await propfind(folderPath). The server answers 207 with
\* the body of the folder the URL addresses, and anything else when there
\* is no such folder; parseMultistatus runs in the 'end' callback, where
\* an exception is uncaught
WalkList ==
  /\ walk.phase = "walking"
  /\ walk.stack # <<>>
  /\ ~WalkTop.listed
  /\ LET hit == Addressed(walk.tree, WalkTop.path)
     IN IF hit = {}
          THEN walk' = [walk EXCEPT !.stack = WalkPop,
                                    !.failures = @ + 1]
          ELSE LET d == CHOOSE e \in hit : TRUE
                   out == ParseMultistatus(Body(walk.tree, d), WalkTop.path)
               IN IF out.threw
                    THEN walk' = [walk EXCEPT !.phase = "crashed",
                                     !.listed = Append(@, d)]
                    ELSE walk' = [walk EXCEPT
                                     !.stack[Len(walk.stack)] =
                                        [path |-> WalkTop.path,
                                         items |-> out.items,
                                         listed |-> TRUE],
                                     !.listed = Append(@, d)]
  /\ UNCHANGED <<run, parse, crawl, shell>>

Descend_Later(frames, item) ==
  <<WalkFrame(item.relativePath)>> \o frames

\* scanFolder: await scanFolder(item.relativePath, ...): the call for the
\* subfolder runs, and the loop of the caller waits for it
Descend(frames, item) == Append(frames, WalkFrame(item.relativePath))

\* scanFolder: one iteration of for (const item of items)
WalkItem ==
  /\ walk.phase = "walking"
  /\ walk.stack # <<>>
  /\ WalkTop.listed /\ WalkTop.items # <<>>
  /\ LET item == Head(WalkTop.items)
         rest == [walk.stack EXCEPT ![Len(walk.stack)].items = Tail(@)]
     IN IF item.isFolder
          THEN walk' = [walk EXCEPT !.stack = Descend(rest, item),
                                    !.foldersScanned = @ + 1]
          ELSE walk' = [walk EXCEPT !.stack = rest,
                                    !.found = Append(@, item.href)]
  /\ UNCHANGED <<run, parse, crawl, shell>>

\* scanFolder: the loop is over, the call returns
WalkReturn ==
  /\ walk.phase = "walking"
  /\ walk.stack # <<>>
  /\ WalkTop.listed /\ WalkTop.items = <<>>
  /\ walk' = [walk EXCEPT !.stack = WalkPop]
  /\ UNCHANGED <<run, parse, crawl, shell>>

\* main(): scanFolder('') has returned
WalkDone ==
  /\ walk.phase = "walking"
  /\ walk.stack = <<>>
  /\ walk' = [walk EXCEPT !.phase = "done"]
  /\ UNCHANGED <<run, parse, crawl, shell>>

NextWalk ==
  \/ WalkList
  \/ WalkItem
  \/ WalkReturn
  \/ WalkDone

SpecWalk == InitWalk /\ [][NextWalk]_vars

\* ----------------------------------------------------------------- C17
\* how often the server listed folder d
TimesListed(d) ==
  Cardinality({i \in 1..Len(walk.listed) : walk.listed[i] = d})

\* how often the walk came upon the file at path f: the href of an item
\* is the server's href decoded once
TimesFound(f) ==
  Cardinality({i \in 1..Len(walk.found) :
                 walk.found[i] = <<BaseToken>> \o Join(f, FALSE)})

\* C17: when the walk of a remote tree has returned and every listing of
\* it succeeded, every folder of the tree has been listed exactly once,
\* foldersScanned is the number of folders with the root, and every file
\* has been discovered exactly once.
C17_EveryFolderAndFileOnce ==
  (walk.phase = "done" /\ walk.failures = 0) =>
     /\ \A d \in FolderPaths(walk.tree) : TimesListed(d) = 1
     /\ walk.foldersScanned = Cardinality(FolderPaths(walk.tree))
     /\ \A n \in walk.tree : ~n.isFolder => TimesFound(n.path) = 1

\* ----------------------------------------------------------------- C19
\* a first run, without a manifest, against a server whose root also has
\* the folder E
InitSiblings ==
  /\ RunIdle
  /\ folders = {"", "D", "E"}
  /\ parse = NoParse
  /\ walk = NoWalk
  /\ crawl = NoCrawl
  /\ shell = NoShell

SpecSiblings == InitSiblings /\ [][Next]_vars

\* C19: when the process has ended with a non-empty error list its exit
\* status is a failure, and when it has ended in Done with an empty error
\* list its exit status is success.
C19_ExitStatusTellsErrors ==
  (pc \in Ended /\ pc # "idle") =>
     /\ stats.errors # <<>> => exitCode # 0
     /\ (pc = "done" /\ stats.errors = <<>>) => exitCode = 0

\* ----------------------------------------------------------------- C20
\* C20: while the run goes on or is done, every download that did not
\* succeed and every folder listing that did not succeed has an entry on
\* the error list.
C20_EveryFailureIsOnTheErrorList ==
  (pc \in {"scanning", "syncing", "done"}) =>
     /\ \A f \in failed : Err("download", f) \in ErrorSet
     /\ \A d \in folders : ListingFailed(d) => ScanErrorsOf(d) # {}

\* ------------------------------------------------- the manifest on disk
\* entries the manifest file may hold when the run starts
DiskFiles ==
  { EmptyFiles,
    [p \in {"a"} |-> Entry(2, 1, 0)],
    [p \in Paths |-> Entry(1, 1, 0)] }

\* the time stamps of earlier runs: none, or a full sync at -1 after an
\* incremental one at -2
DiskStamps == {<<0, 0>>, <<-1, -2>>}

\* manifests an earlier version or an edit may have left: the totals agree
\* with the entries (off = 0) or not
DiskManifests ==
  { [lastFullSync |-> st[1], lastIncrementalSync |-> st[2],
     totalFiles |-> Cardinality(DOMAIN fs) + off,
     totalSize |-> SumSizes(fs) + off, files |-> fs] :
       fs \in DiskFiles, st \in DiskStamps, off \in {0, 1} }

\* the manifest whose text a damaged file held
DamagedManifest ==
  [lastFullSync |-> -1, lastIncrementalSync |-> -2, totalFiles |-> 3,
   totalSize |-> 3, files |-> [p \in Paths |-> Entry(1, 1, 0)]]

DiskStates ==
  {Missing} \cup {Intact(m) : m \in DiskManifests}
    \cup {Damaged(how, DamagedManifest) : how \in {"unreadable", "invalid"}}
    \cup {Damaged("shape", EmptyManifest)}

\* no run has started
NotStarted ==
  /\ changes = 0
  /\ runs = 0
  /\ clean = FALSE
  /\ follows = FALSE
  /\ pc = "idle"
  /\ cfg = [password |-> FALSE, dryRun |-> FALSE, fullSync |-> FALSE]
  /\ manifest = EmptyManifest
  /\ loaded = EmptyManifest
  /\ stats = ZeroStats
  /\ filesToSync = <<>>
  /\ stack = <<>>
  /\ current = 0
  /\ http = NoHttp
  /\ exitCode = -1
  /\ class = [f \in Files |-> "none"]
  /\ called = {}
  /\ succeeded = {}
  /\ failed = {}
  /\ written = {}

InitDisk ==
  /\ remote = [f \in Files |-> [size |-> 1, time |-> 1]]
  /\ manifestFile \in DiskStates
  /\ everDownloaded = (IF manifestFile.exists
                         THEN DOMAIN manifestFile.content.files ELSE {})
  /\ dirs = (IF everDownloaded = {} THEN {} ELSE {""})
            \cup (IF "D/b" \in everDownloaded THEN {"D"} ELSE {})
  /\ NotStarted
  /\ parse = NoParse
  /\ walk = NoWalk
  /\ crawl = NoCrawl
  /\ shell = NoShell
  /\ folders = {"", "D"}

\* one run that may be cut short while it saves the manifest
NextDisk ==
  \/ Next
  \/ \E how \in {"failed", "killed"} : FinalizeInterrupted(how)

SpecDisk == InitDisk /\ [][NextDisk]_vars

\* ----------------------------------------------------------------- C21
\* C21: every step leaves the manifest file as it was or leaves it holding
\* the complete text of the manifest in memory, also when the write fails
\* or the process is killed while saving; and no step of a dry run
\* changes the manifest file.
C21_SaveIsAtomic ==
  [][ /\ manifestFile' \in {manifestFile, Intact(manifest')}
      /\ cfg'.dryRun => manifestFile' = manifestFile ]_vars

\* ----------------------------------------------------------------- C22
\* the manifest file is missing, unreadable or not valid JSON
BadFile ==
  ~manifestFile.exists \/ manifestFile.state \in {"unreadable", "invalid"}

\* C22: as long as this run has not written the manifest file, a run that
\* found the file missing, unreadable or not valid JSON works on a
\* manifest that was loaded empty (no entries, no time stamps, zero
\* totals), and every file an incremental run has discovered is
\* classified new and is on the to-sync list.
C22_BadFileLoadsEmpty ==
  (Loaded /\ BadFile /\ W("manifest", "") \notin written) =>
     /\ loaded = EmptyManifest
     /\ ~cfg.fullSync =>
          \A f \in Discovered : class[f] = "new" /\ f \in ToSyncPaths

\* an incremental run found a manifest file that is not valid JSON, went
\* on, classified both remote files as new and downloaded one
C22_Witness ==
  /\ pc = "syncing" /\ ~cfg.fullSync /\ ~cfg.dryRun
  /\ manifestFile = Damaged("invalid", DamagedManifest)
  /\ loaded = EmptyManifest
  /\ Discovered = Files
  /\ \A f \in Files : class[f] = "new"
  /\ succeeded # {}

\* ----------------------------------------------------------------- C23
\* what holds in each phase: while scanning, a listing is the current
\* exchange and no download has been invoked; a download is only invoked
\* when the walk has returned; the manifest and the report are only
\* written when every file of the to-sync list has been attempted and the
\* last exchange has settled
C23_Ordered ==
  /\ pc = "scanning" =>
       /\ http.op = "propfind"
       /\ called = {} /\ current = 0 /\ succeeded = {} /\ failed = {}
       /\ \A w \in written : w.kind \notin {"file", "dir", "manifest", "report"}
  /\ (http.op = "get" \/ called # {}) =>
       pc \notin {"scanning", "hung", "crashed"} /\ stack = <<>>
  /\ (W("manifest", "") \in written \/ W("report", "") \in written) =>
       /\ pc = "done"
       /\ current = Len(filesToSync)
       /\ called = ToSyncPaths
       /\ http.stage = "settled"

\* C23: a run that passed the credential check loads the manifest and
\* then scans; it goes from scanning to syncing and from syncing to done
\* and never backwards (or stops where it is); no download is invoked
\* before the walk has returned; the manifest file and the report are
\* written only in the step to done, after the last download attempt has
\* settled.
C23_PhasesInOrder ==
  [][ /\ runs' # runs =>
           /\ pc \in Ended
           /\ pc' \in {"usage", "fatal", "scanning"}
           /\ pc' = "scanning" =>
                /\ loaded' = LoadManifest /\ manifest' = LoadManifest
                /\ http'.op = "propfind" /\ http'.target = ""
      /\ runs' = runs =>
           /\ loaded' = loaded
           /\ pc = "scanning" =>
                pc' \in {"scanning", "syncing", "hung", "crashed"}
           /\ pc = "syncing" => pc' \in {"syncing", "done", "fatal"}
           /\ pc \in Ended => pc' = pc
      /\ (manifestFile' # manifestFile \/ (pc' = "done" /\ pc # "done")) =>
           /\ pc = "syncing" /\ pc' = "done"
           /\ current = Len(filesToSync)
           /\ http.stage = "settled"
      /\ C23_Ordered' ]_vars

\* a run is done: it scanned both folders, attempted both downloads, one
\* succeeded and one failed, and then wrote the manifest and the report
C23_Witness ==
  /\ pc = "done"
  /\ stats.foldersScanned = 2 /\ Discovered = Files
  /\ called = Files /\ succeeded # {} /\ failed # {}
  /\ W("manifest", "") \in written /\ W("report", "") \in written
  /\ manifestFile = Intact(manifest)

\* ----------------------------------------------------------------- C24
\* the size an entry of m contributes, and whether m has the entry
SizeIn(m, p) == IF p \in DOMAIN m.files THEN m.files[p].size ELSE 0

CountIn(m, p) == IF p \in DOMAIN m.files THEN 1 ELSE 0

\* C24: when the run is done, totalFiles of the manifest is the number of
\* its entries and totalSize the sum of their sizes, the entry of the
\* stale path included, whatever totals the loaded manifest carried; and
\* a run that is not dry has saved exactly that manifest.
C24_TotalsAreRecomputed ==
  pc = "done" =>
     /\ DOMAIN manifest.files \subseteq Paths
     /\ manifest.totalFiles =
          CountIn(manifest, "a") + CountIn(manifest, "D/b")
            + CountIn(manifest, StalePath)
     /\ manifest.totalSize =
          SizeIn(manifest, "a") + SizeIn(manifest, "D/b")
            + SizeIn(manifest, StalePath)
     /\ ~cfg.dryRun => manifestFile = Intact(manifest)

\* the loaded manifest carried wrong totals and an entry for the stale
\* path; the run downloaded "a" anew with size 2 and is done
C24_Witness ==
  /\ pc = "done" /\ ~cfg.dryRun
  /\ loaded.totalFiles = 4 /\ loaded.totalSize = 4
  /\ StalePath \in DOMAIN manifest.files
  /\ "a" \in succeeded /\ manifest.files["a"].size = 2
  /\ manifest.totalFiles = 3 /\ manifest.totalSize = 4

\* ----------------------------------------------------------------- C25
\* C25: until the run is done both time stamps of the manifest are the
\* loaded ones; when it is done, a full sync has set lastFullSync to the
\* time of the run and left lastIncrementalSync as loaded, and an
\* incremental run has set lastIncrementalSync and left lastFullSync as
\* loaded.
C25_ExactlyOneStamp ==
  /\ pc \in {"scanning", "syncing"} =>
       /\ manifest.lastFullSync = loaded.lastFullSync
       /\ manifest.lastIncrementalSync = loaded.lastIncrementalSync
  /\ (pc = "done" /\ cfg.fullSync) =>
       /\ manifest.lastFullSync = runs
       /\ manifest.lastIncrementalSync = loaded.lastIncrementalSync
  /\ (pc = "done" /\ ~cfg.fullSync) =>
       /\ manifest.lastIncrementalSync = runs
       /\ manifest.lastFullSync = loaded.lastFullSync

\* a full sync on a manifest stamped by two earlier runs is done and
\* saved: the stamp of the incremental run is the old one
C25_Witness ==
  /\ pc = "done" /\ cfg.fullSync /\ ~cfg.dryRun
  /\ loaded.lastFullSync = -1 /\ loaded.lastIncrementalSync = -2
  /\ manifestFile.content.lastFullSync = 1
  /\ manifestFile.content.lastIncrementalSync = -2

\* ----------------------------------------------------------------- C26
\* C26: a process started without a password (unset or empty) has ended
\* with the usage text and exit status 1; it has not loaded the manifest,
\* has sent no request, has scanned nothing and has written nothing, the
\* manifest file, the log and the backup directory included.
C26_NoPasswordIsFatal ==
  (pc # "idle" /\ ~cfg.password) =>
     /\ pc = "usage"
     /\ exitCode = 1
     /\ ~Loaded /\ loaded = EmptyManifest /\ manifest = EmptyManifest
     /\ http = NoHttp
     /\ stats = ZeroStats /\ stack = <<>>
     /\ written = {}

\* the process was started without a password on a disk whose manifest
\* file has entries, and has exited
C26_Witness ==
  /\ pc = "usage" /\ ~cfg.password
  /\ manifestFile.exists /\ DOMAIN manifestFile.content.files = Paths
  /\ exitCode = 1

\* ----------------------------------------------------------------- C27
\* a destination is the backup root or lies below it
InsideBackupDir(dest) ==
  LET root == PathJoin(BackupDir, <<>>)
  IN Len(dest) >= Len(root) /\ SubSeq(dest, 1, Len(root)) = root

\* C27: the destination of every file of a listing is the backup root
\* joined with the relative path of its entry, and it lies inside the
\* backup root, whatever href the server wrote.
C27_DestinationInsideBackupDir ==
  parse.phase = "synced" =>
     \A i \in 1..Len(parse.items) :
        ~parse.items[i].isFolder =>
           /\ parse.dests[i] = PathJoin(BackupDir, parse.items[i].relativePath)
           /\ InsideBackupDir(parse.dests[i])

\* ----------------------------------------------------------------- C28
\* C28: once the download of a file has succeeded in this run, the
\* manifest has an entry for its path with the size and the modification
\* time the listing of this run reported and with syncedAt the time of
\* this run, later than the syncedAt of the loaded entry; and a file whose
\* listed size differs from the size of its loaded entry is classified
\* modified by an incremental run.
C28_SuccessUpdatesEntry ==
  /\ \A f \in succeeded :
       /\ f \in DOMAIN manifest.files
       /\ manifest.files[f] = Entry(remote[f].size, remote[f].time, runs)
       /\ f \in DOMAIN loaded.files =>
            manifest.files[f].syncedAt > loaded.files[f].syncedAt
       /\ (pc = "done" /\ ~cfg.dryRun) =>
            manifestFile.content.files[f] = manifest.files[f]
  /\ \A f \in Discovered :
       (~cfg.fullSync /\ f \in DOMAIN loaded.files
          /\ loaded.files[f].size # remote[f].size) =>
            class[f] = "modified" /\ f \in ToSyncPaths

\* the loaded entry of "a" has size 1, the listing reports size 2: the
\* incremental run classified it modified, downloaded it and saved the
\* entry with size 2
C28_Witness ==
  /\ pc = "done" /\ ~cfg.fullSync /\ ~cfg.dryRun
  /\ "a" \in DOMAIN loaded.files /\ loaded.files["a"].size = 1
  /\ remote["a"].size = 2
  /\ class["a"] = "modified" /\ "a" \in succeeded
  /\ manifestFile.content.files["a"] = Entry(2, remote["a"].time, runs)

\* ----------------------------------------------------------------- C29
\* listings that were started and have not settled: the scanFolder calls
\* still waiting for propfind
PendingListings == {i \in 1..Len(stack) : ~stack[i].listed}

\* downloads that were started and have not settled
PendingDownloads == called \ (succeeded \cup failed)

\* the current exchange has not settled
Awaited == http.stage \notin {"idle", "settled"}

\* at most one listing or download is in progress, and it is the current
\* exchange
C29_AtMostOne ==
  /\ Cardinality(PendingListings) + Cardinality(PendingDownloads) <= 1
  /\ Awaited =>
       Cardinality(PendingListings) + Cardinality(PendingDownloads) = 1
  /\ \A i \in PendingListings :
       i = Len(stack) /\ http.op = "propfind" /\ http.target = stack[i].path
  /\ \A f \in PendingDownloads : http.op = "get" /\ http.target = f

\* C29: at most one listing or download is in progress at any time; a
\* step that starts a listing or a download, or that writes the manifest
\* file, is taken only when the exchange before it has settled.
C29_Sequential ==
  [][ /\ (http' # http /\ http'.stage = "sent") => ~Awaited
      /\ manifestFile' # manifestFile => ~Awaited
      /\ C29_AtMostOne' ]_vars

\* the second download of the run is in progress, the first one has
\* settled, and both listings settled before it
C29_Witness ==
  /\ pc = "syncing" /\ current = 2
  /\ http.op = "get" /\ http.stage = "authsent"
  /\ Cardinality(PendingDownloads) = 1
  /\ Cardinality(succeeded \cup failed) = 1
  /\ stats.foldersScanned = 2

\* ------------------------------------------ the page crawl (files crawler)
\* URLs of the site: the base URL, a member-only page, two other pages
BaseUrl == "https://site"

MemberPage == "https://site/members"

SiteUrls == {BaseUrl, MemberPage, "https://site/a", "https://site/b"}

\* what extractPageLinks may return for a page: same-site URLs, each one
\* once, in the order of the HTML
LinkLists ==
  {l \in UNION {[1..n -> SiteUrls] : n \in 0..2} :
     \A i, j \in 1..Len(l) : i # j => l[i] # l[j]}

\* fetchPage: null, or the HTML of the page, of which the crawl uses the
\* page links
Pages == {[ok |-> FALSE, links |-> <<>>]}
           \cup {[ok |-> TRUE, links |-> l] : l \in LinkLists}

\* for (const link of links) if (!visited.has(link) &&
\* !toVisit.includes(link)) toVisit.push(link)
RECURSIVE PushLinks(_, _, _)
PushLinks(queue, links, visited) ==
  IF links = <<>> THEN queue
  ELSE LET link == Head(links)
           seen == link \in visited
                     \/ \E i \in 1..Len(queue) : queue[i] = link
       IN PushLinks(IF seen THEN queue ELSE Append(queue, link),
                    Tail(links), visited)

\* parseArgs and discoverFromPageCrawl up to its loop
InitCrawl ==
  /\ RunIdle
  /\ folders = {"", "D"}
  /\ parse = NoParse
  /\ walk = NoWalk
  /\ shell = NoShell
  /\ \E verbose \in BOOLEAN, cookies \in BOOLEAN, maxPages \in 0..MaxPages :
       crawl = [phase |-> "crawling", verbose |-> verbose,
                cookies |-> cookies, maxPages |-> maxPages,
                visited |-> {},
                toVisit |-> IF cookies THEN <<BaseUrl, MemberPage>>
                                       ELSE <<BaseUrl>>,
                pageCount |-> 0, fetched |-> <<>>]

\* the condition of the while loop
CrawlGoesOn ==
  crawl.toVisit # <<>> /\ crawl.pageCount < crawl.maxPages

\* discoverFromPageCrawl: one iteration of the while loop; page is what
\* fetchPage returns
CrawlVisit(page) ==
  /\ crawl.phase = "crawling"
  /\ CrawlGoesOn
  /\ LET url == Head(crawl.toVisit)
         rest == Tail(crawl.toVisit)
         count == IF crawl.verbose THEN crawl.pageCount + 1
                                   ELSE crawl.pageCount
         visited == crawl.visited \cup {url}
     IN IF url \in crawl.visited
          THEN crawl' = [crawl EXCEPT !.toVisit = rest]
          ELSE crawl' = [crawl EXCEPT
                 !.visited = visited,
                 !.pageCount = count,
                 !.fetched = Append(@, url),
                 !.toVisit = IF page.ok /\ count < crawl.maxPages
                               THEN PushLinks(rest, page.links, visited)
                               ELSE rest]
  /\ UNCHANGED <<run, parse, walk, shell>>

\* discoverFromPageCrawl: the while loop is over
CrawlEnd ==
  /\ crawl.phase = "crawling"
  /\ ~CrawlGoesOn
  /\ crawl' = [crawl EXCEPT !.phase = "done"]
  /\ UNCHANGED <<run, parse, walk, shell>>

NextCrawl ==
  \/ \E page \in Pages : CrawlVisit(page)
  \/ CrawlEnd

SpecCrawl == InitCrawl /\ [][NextCrawl]_vars

\* ----------------------------------------------------------------- C30
\* C30: the page crawl has fetched at most maxPages pages, and no URL
\* twice, with and without --quiet.
C30_AtMostMaxPages ==
  /\ Len(crawl.fetched) <= crawl.maxPages
  /\ \A i, j \in 1..Len(crawl.fetched) :
       i # j => crawl.fetched[i] # crawl.fetched[j]
\* ----------------------------------------------------------------- C31
\* what holds of the to-sync list and the invocations so far: no path is
\* on the list twice; the Downloader has been invoked for the first
\* `current` elements of the list and for nothing else; the download
\* going on is the one of element `current`; no request is under way for
\* a file whose download has already failed or succeeded; when the run is
\* done every element has been attempted and has either succeeded or
\* failed
C31_Attempts ==
  /\ \A i, j \in 1..Len(filesToSync) :
       i # j => filesToSync[i].relativePath # filesToSync[j].relativePath
  /\ called = {filesToSync[i].relativePath : i \in 1..current}
  /\ http.op = "get" =>
       current >= 1 /\ http.target = filesToSync[current].relativePath
  /\ \A f \in failed \cup succeeded :
       ~(http.op = "get" /\ http.target = f /\ http.stage # "settled")
  /\ pc = "done" =>
       /\ current = Len(filesToSync)
       /\ succeeded \cup failed = ToSyncPaths
       /\ succeeded \cap failed = {}

\* C31: within a run, the scan appends each file it classifies new or
\* modified to the end of the to-sync list and the list does not change
\* afterwards; every step that invokes the Downloader is a step of
\* Syncing that invokes it for the next element of the list, which has
\* not been attempted before; so each element is attempted exactly once,
\* in discovery order, and a failed download is not attempted again.
C31_OncePerFileInOrder ==
  [][ /\ runs' = runs =>
           /\ pc # "scanning" => filesToSync' = filesToSync
           /\ filesToSync' # filesToSync =>
                \E f \in Files :
                   /\ class[f] = "none"
                   /\ class'[f] \in {"new", "modified"}
                   /\ filesToSync' = Append(filesToSync, FileInfo(f))
           /\ current' \in {current, current + 1}
           /\ (called' # called) = (current' = current + 1)
           /\ (http' # http /\ http'.op = "get"
                 /\ (http.op # "get" \/ http.stage = "settled")) =>
                current' = current + 1
           /\ current' = current + 1 =>
                /\ pc = "syncing"
                /\ filesToSync[current'].relativePath \notin called
                /\ called' = called \cup {filesToSync[current'].relativePath}
                /\ http'.op = "get"
                /\ http'.target = filesToSync[current'].relativePath
      /\ C31_Attempts' ]_vars

\* a run is done with a to-sync list of two files in discovery order,
\* D/b before a: the first download failed, the second succeeded, and
\* each was invoked once
C31_Witness ==
  /\ pc = "done" /\ ~cfg.dryRun
  /\ Len(filesToSync) = 2
  /\ filesToSync[1].relativePath = "D/b" /\ filesToSync[2].relativePath = "a"
  /\ "D/b" \in failed /\ "a" \in succeeded
  /\ current = 2 /\ called = {"a", "D/b"}
\* ----------------------------------------------------------------- C32
\* the index at which the walk discovered the file at path f
FoundAt(f) ==
  CHOOSE i \in 1..Len(walk.found) :
     walk.found[i] = <<BaseToken>> \o Join(f, FALSE)

\* path p is d or lies below d
Under(p, d) == Len(p) >= Len(d) /\ SubSeq(p, 1, Len(d)) = d

\* the place of a name in the order of the server's listings
Rank(nm) == CHOOSE i \in 1..Len(NameOrder) : NameOrder[i] = nm

\* s is a subfolder and e a later entry of the listing of the same folder
LaterEntry(s, e) ==
  /\ s.isFolder
  /\ Len(s.path) = Len(e.path)
  /\ SubSeq(s.path, 1, Len(s.path) - 1) = SubSeq(e.path, 1, Len(e.path) - 1)
  /\ Rank(s.path[Len(s.path)]) < Rank(e.path[Len(e.path)])

\* every listing so far returned the items of the folder it was asked for
ListedAsAsked ==
  /\ walk.phase \in {"walking", "done"}
  /\ walk.failures = 0
  /\ \A i, j \in 1..Len(walk.listed) :
       i # j => walk.listed[i] # walk.listed[j]

\* C32: as long as every listing returned the items of the folder it was
\* asked for: when the listing of a folder has a subfolder s and a later
\* entry e, and the walk has discovered e or a file below e, then it has
\* discovered every file of the whole subtree of s, each of them before.
C32_DepthFirst ==
  ListedAsAsked =>
     \A s \in walk.tree, e \in walk.tree :
        LaterEntry(s, e) =>
           \A g \in walk.tree :
              (~g.isFolder /\ Under(g.path, e.path) /\ TimesFound(g.path) > 0) =>
                 \A f \in walk.tree :
                    (~f.isFolder /\ Under(f.path, s.path)) =>
                       /\ TimesFound(f.path) > 0
                       /\ FoundAt(f.path) < FoundAt(g.path)

\* the root lists the folder R and then the file x, and R holds the file
\* R/x: the walk has returned and found R/x before x
C32_Witness ==
  /\ walk.phase = "done" /\ ListedAsAsked
  /\ Node(<< <<"R">> >>, TRUE) \in walk.tree
  /\ walk.found = << <<BaseToken, "R", "/", "x">>, <<BaseToken, "x">> >>
\* ----------------------------------------------------------------- C33
\* the block has an href that the parser takes for the listed folder
SelfReference(block, currentPath) ==
  LET href == DecodeURIComponent(block.href)
  IN /\ block.hasHref
     /\ href.ok
     /\ StripSlash(StripBase(href.val)) = currentPath

\* the blocks that have an href and are not the self-reference, in the
\* order of the body
Survivors(xml, currentPath) ==
  SelectSeq(xml, LAMBDA b : b.hasHref /\ ~SelfReference(b, currentPath))

\* the body without its blocks that have no href
WithHref(xml) == SelectSeq(xml, LAMBDA b : b.hasHref)

\* C33: the outcome of parsing a body is the outcome of parsing it
\* without its blocks that have no href; and when the parse returns, it
\* returns one entry for each block that has an href and is not the
\* self-reference, in the order of the body, with the href and the kind
\* of that block.
C33_BlockWithoutHrefIsSkipped ==
  parse.phase # "called" /\ parse.phase # "none" =>
     LET plain == ParseMultistatus(WithHref(parse.xml), parse.currentPath)
         kept == Survivors(parse.xml, parse.currentPath)
     IN /\ parse.threw = plain.threw
        /\ parse.items = plain.items
        /\ ~parse.threw =>
             /\ Len(parse.items) = Len(kept)
             /\ \A i \in 1..Len(kept) :
                  /\ parse.items[i].href = DecodeURIComponent(kept[i].href).val
                  /\ parse.items[i].isFolder = kept[i].isFolder

\* a body of two blocks for the folder R: the first has no href, the
\* second is the file R/x; the parse returned the entry of R/x
C33_Witness ==
  /\ parse.phase = "returned" /\ ~parse.threw
  /\ parse.currentPath = <<"R">>
  /\ Len(parse.xml) = 2
  /\ ~parse.xml[1].hasHref
  /\ parse.xml[2] = Block(TRUE, <<BaseToken, "R", "/", "x">>, FALSE)
  /\ Len(parse.items) = 1
  /\ parse.items[1].relativePath = <<"R", "/", "x">>
\* ----------------------------------------------------------------- C34
\* the number of download errors on the error list
DownloadErrors ==
  Cardinality({i \in 1..Len(stats.errors) : stats.errors[i].kind = "download"})

\* the sum of the listed sizes of the first n files of the to-sync list
\* whose download succeeded
RECURSIVE ListedBytes(_)
ListedBytes(n) ==
  IF n = 0 THEN 0
  ELSE ListedBytes(n - 1)
         + (IF filesToSync[n].relativePath \in succeeded
              THEN filesToSync[n].size ELSE 0)

\* C34: in every state of a run, filesFound is the number of files
\* discovered and equals filesNew + filesModified + filesUnchanged, and
\* the length of the to-sync list is filesNew + filesModified; whenever no
\* download is under way, filesDownloaded plus the number of download
\* errors is the number of files attempted, which is the length of the
\* to-sync list when the run is done; filesDownloaded is the number of
\* successful downloads and bytesDownloaded the sum of their listed
\* sizes.
C34_CounterConservation ==
  pc \in {"scanning", "syncing", "done"} =>
     /\ stats.filesFound = Cardinality(Discovered)
     /\ stats.filesFound =
          stats.filesNew + stats.filesModified + stats.filesUnchanged
     /\ Len(filesToSync) = stats.filesNew + stats.filesModified
     /\ http.stage = "settled" =>
          stats.filesDownloaded + DownloadErrors = current
     /\ pc = "done" =>
          stats.filesDownloaded + DownloadErrors = Len(filesToSync)
     /\ stats.filesDownloaded = Cardinality(succeeded)
     /\ stats.bytesDownloaded = ListedBytes(Len(filesToSync))

\* an incremental run on a manifest that matches D/b is done: a, of
\* listed size 2, was modified and downloaded, D/b was unchanged
C34_Witness ==
  /\ pc = "done" /\ ~cfg.fullSync /\ ~cfg.dryRun
  /\ stats.filesFound = 2 /\ stats.filesModified = 1
  /\ stats.filesUnchanged = 1 /\ stats.filesNew = 0
  /\ Len(filesToSync) = 1 /\ filesToSync[1].size = 2
  /\ stats.filesDownloaded = 1 /\ stats.bytesDownloaded = 2
  /\ stats.errors = <<>>
\* ------------------------------------------------------- runs that go on
\* every request is answered or fails, and every callback and every
\* continuation that is ready runs
Progress == WF_vars(Next)

\* one run in which whatever can happen next does happen
SpecProgress == Init /\ [][Next]_vars /\ Progress

\* ----------------------------------------------------------------- C35
\* C35: when every request is answered or fails, a run that has passed
\* the credential check and started scanning eventually reaches Done or
\* ends with a fatal error.
C35_EveryRunTerminates ==
  (pc = "scanning") ~> (pc \in {"done", "fatal", "crashed"})
\* ----------------------------------------------------------------- C36
\* C36: a run that has a password and a backup directory, started on a
\* manifest file whose text is valid JSON of another shape than a
\* manifest, does not end with a fatal error: it goes on to Scanning.
C36_AnyJsonIsUsable ==
  (pc # "idle" /\ cfg.password /\ "" \in dirs /\ ManifestUnusable) =>
     pc # "fatal"
\* ----------------------------------------------------------------- C37
\* the remote folders a subfolder entry of a listing stands for: the href
\* of the entry is the server's href of the folder, decoded once
FoldersOf(item) ==
  {d \in FolderPaths(walk.tree) :
     item.href = <<BaseToken>> \o Join(d, FALSE) \o <<"/">>}

\* C37: no listing of the walk fails in the parse, and for every
\* subfolder entry a listing returned, the request for the relativePath of
\* the entry addresses the remote folder the entry stands for, whatever
\* characters its name has.
C37_PathRoundTrip ==
  /\ walk.phase # "crashed"
  /\ \A k \in 1..Len(walk.stack) :
       walk.stack[k].listed =>
          \A i \in 1..Len(walk.stack[k].items) :
             LET item == walk.stack[k].items[i]
             IN item.isFolder =>
                  /\ FoldersOf(item) # {}
                  /\ Addressed(walk.tree, item.relativePath) = FoldersOf(item)
\* ------------------------------------------------ the curl backup script
\* what an item of a listing turns out to be: a folder, a file that is
\* downloaded (no local copy, or one of another size), or a file whose
\* local copy has the remote size
ItemKinds == {"folder", "download", "same"}

\* list_dir: an empty response, or the items of the directory; a folder
\* can appear while the directory is less than MaxDepth - 1 levels below
\* the main directories
Responses_list_dir(depth) ==
  {[ok |-> FALSE, items |-> <<>>]} \cup
  {[ok |-> TRUE, items |-> l] :
     l \in {m \in UNION {[1..n -> ItemKinds] : n \in 0..MaxBlocks} :
              \A i \in 1..Len(m) : m[i] = "folder" => depth + 1 < MaxDepth}}

\* the shell that is executing: the main shell is level 1, and every
\* `echo "$response" | ... | while read -r item` runs its loop in a
\* subshell, one level up
TopLevel == shell.levels[Len(shell.levels)]

\* sync_dir "$dir" $depth in the executing shell: list_dir, then either
\* the ERROR line and return, or the pipeline, whose while loop runs in a
\* subshell that starts with a copy of the variables of its parent
sync_dir(sh, resp, depth) ==
  IF ~resp.ok
    THEN shell' = [sh EXCEPT !.unlisted = @ + 1]
    ELSE shell' = [sh EXCEPT
           !.levels = Append(@, [counters |-> sh.levels[Len(sh.levels)].counters,
                                 items |-> resp.items, depth |-> depth])]

\* the script from its start to the first sync_dir
InitCurl ==
  /\ RunIdle
  /\ folders = {"", "D"}
  /\ parse = NoParse
  /\ walk = NoWalk
  /\ crawl = NoCrawl
  /\ shell = [phase |-> "running", dirs |-> <<"Documents", "Pictures">>,
              levels |-> <<[counters |-> ZeroCounters, items |-> <<>>,
                            depth |-> 0]>>,
              actual |-> ZeroCounters, unlisted |-> 0,
              logged |-> ZeroCounters]

\* main: for dir in Documents Pictures; do sync_dir "$dir" 0
MainSyncDir(resp) ==
  /\ shell.phase = "running"
  /\ Len(shell.levels) = 1
  /\ shell.dirs # <<>>
  /\ resp \in Responses_list_dir(0)
  /\ sync_dir([shell EXCEPT !.dirs = Tail(@)], resp, 0)
  /\ UNCHANGED <<run, parse, walk, crawl>>

\* sync_dir: an iteration of the while loop on a folder item:
\* sync_dir "$relative" $((depth + 1))
FolderItem(resp) ==
  /\ shell.phase = "running"
  /\ Len(shell.levels) > 1
  /\ TopLevel.items # <<>> /\ Head(TopLevel.items) = "folder"
  /\ resp \in Responses_list_dir(TopLevel.depth + 1)
  /\ sync_dir([shell EXCEPT !.levels[Len(shell.levels)].items = Tail(@)],
              resp, TopLevel.depth + 1)
  /\ UNCHANGED <<run, parse, walk, crawl>>

\* sync_dir: an iteration of the while loop on a file item: download_file
\* and ((DOWNLOADED++)) or ((ERRORS++)), or ((SKIPPED++)), on the variables
\* of the executing shell
FileItem(ok) ==
  /\ shell.phase = "running"
  /\ Len(shell.levels) > 1
  /\ TopLevel.items # <<>> /\ Head(TopLevel.items) # "folder"
  /\ LET name == IF Head(TopLevel.items) = "same" THEN "SKIPPED"
                 ELSE IF ok THEN "DOWNLOADED" ELSE "ERRORS"
     IN shell' = [shell EXCEPT
          !.levels[Len(shell.levels)] =
             [@ EXCEPT !.items = Tail(@),
                       !.counters = [@ EXCEPT ![name] = @ + 1]],
          !.actual = [@ EXCEPT ![name] = @ + 1]]
  /\ UNCHANGED <<run, parse, walk, crawl>>

\* sync_dir: the while loop is over, its subshell exits and sync_dir
\* returns to the shell that called it
LoopEnd ==
  /\ shell.phase = "running"
  /\ Len(shell.levels) > 1
  /\ TopLevel.items = <<>>
  /\ shell' = [shell EXCEPT
                 !.levels = SubSeq(@, 1, Len(shell.levels) - 1)]
  /\ UNCHANGED <<run, parse, walk, crawl>>

\* main: log "Downloaded: $DOWNLOADED", "Skipped: $SKIPPED",
\* "Errors: $ERRORS"
Summary ==
  /\ shell.phase = "running"
  /\ Len(shell.levels) = 1
  /\ shell.dirs = <<>>
  /\ shell' = [shell EXCEPT !.phase = "done",
                            !.logged = TopLevel.counters]
  /\ UNCHANGED <<run, parse, walk, crawl>>

NextCurl ==
  \/ \E resp \in Responses_list_dir(0) : MainSyncDir(resp)
  \/ \E resp \in Responses_list_dir(1) : FolderItem(resp)
  \/ \E ok \in BOOLEAN : FileItem(ok)
  \/ LoopEnd
  \/ Summary

SpecCurl == InitCurl /\ [][NextCurl]_vars

\* ----------------------------------------------------------------- C38
\* C38: when the script has logged its summary, the logged Downloaded,
\* Skipped and Errors values are the numbers of files downloaded, skipped
\* and failed in all the directories synced during the run.
C38_SummaryIsAccurate ==
  shell.phase = "done" => shell.logged = shell.actual
====
